---- MODULE Spec2Model ----
(***************************************************************************)
(* A model of the fantoch replication engine:                              *)
(*   - the Basic protocol state machine (fantoch/src/protocol/basic.rs)    *)
(*     with its command-info table (info.rs) and stability tracker (gc.rs),*)
(*     run by the single-worker process task (run/task/process.rs) and the *)
(*     BasicExecutor (executor/basic.rs)                 -- specification  *)
(*     Spec, and SpecBasicGC with the periodic garbage collection;         *)
(*   - the stability tracker GCTrack on its own          -- SpecGC;        *)
(*   - the dependency-graph executor (fantoch_ps/src/executor/graph)       *)
(*                                                       -- SpecGraph,     *)
(*     and with its auxiliary executor                   -- SpecAux;       *)
(*   - the process task with several protocol workers    -- SpecWorkers;   *)
(*   - the key clocks shared by the workers (fantoch_ps/src/protocol/      *)
(*     common/shared.rs, table/clocks/keys/atomic.rs)    -- SpecShared,    *)
(*     and SpecKeyClocks for keys that have an entry;                      *)
(*   - Workload::new and the keys of a command (client/workload.rs,        *)
(*     client/key_gen.rs)                                -- SpecKeyGen;    *)
(*   - the ToSend actions of a process task and its writers -- SpecSend;   *)
(*   - the registration of clients at the executor tasks                   *)
(*     (run/task/executor.rs)                            -- SpecRegister;  *)
(*   - the Newt protocol (src/protocol/newt.rs)          -- SpecNewt,      *)
(*     and SpecNewtDup with messages delivered again.                      *)
(* Every specification constrains all variables; the variables of the      *)
(* other parts stay at their initial values.                               *)
(***************************************************************************)
EXTENDS Integers, Sequences, FiniteSets, TLC

VARIABLES
    \* ---- Basic protocol (Spec) ----
    gc_running,     \* Config::gc_interval().is_some()
    basic,          \* per process: the Basic struct (bp, cmds, to_processes, to_executors)
    msgs,           \* protocol messages handed to the writers, not yet handled
    dups,           \* number of re-deliveries done so far
    ticks,          \* number of GarbageCollection events fired so far
    submitted,      \* per client: number of commands submitted so far (its RiflGen)
    to_executors,   \* per process: channel worker -> executor (FIFO)
    executor,       \* per process: the BasicExecutor (store, to_clients) and its order log
    \* ---- GCTrack alone (SpecGC) ----
    gct,            \* one GCTrack
    gct_out,        \* what the calls of stable() returned, in order
    \* ---- dependency graph executor (SpecGraph) ----
    graph,          \* the DependencyGraph struct
    commits,        \* the commits handed to handle_add so far: dot -> (keys, clock)
    handed,         \* the commands the consumer obtained via command_to_execute, in order
    \* ---- dot generator shared by the client tasks (SpecDotGen) ----
    atomic_dot_gen, \* the counter of the AtomicDotGen of the process
    client_task,    \* per client task: its position and the dot it holds
    assigned,       \* the dots the generator returned, in the order of the calls
    from_clients,   \* the dots of the submits forwarded to the worker, in order
    \* ---- client workload (SpecWorkload) ----
    workload,       \* the Workload struct (shards_per_command, command_count)
    generated,      \* what the calls of next_cmd returned, in order
    \* ---- one process with several protocol workers (SpecWorkers) ----
    workers,            \* per worker index: its clone of the Basic struct
    reader_to_workers,  \* per worker index: the channel readers -> worker (FIFO)
    wk_gen,             \* dots handed out by the dot generator, peer messages read
    wk_io,              \* messages handed to the writers, infos sent to executors
    h_self,             \* history: calls of handle_message_from_self, counted
    h_handled,          \* history: (worker, from, message) handled, counted
    \* ---- graph executor with an auxiliary executor (SpecAux) ----
    executed_clock_snapshot, \* the snapshot shared by the executors of the process
    aux,                \* the DependencyGraph of the auxiliary executor (index 1)
    aux_sent,           \* request replies handed to the shard writers
    \* ---- key clocks shared by the workers of a process (SpecShared, SpecKeyClocks) ----
    shared_clocks,      \* Shared.clocks, the DashMap from key to AtomicU64
    kc_threads,         \* per worker thread: its position in a call of the key clocks
    kc_votes,           \* the vote ranges issued, counted
    \* ---- a workload created by Workload::new and its key generation (SpecKeyGen) ----
    kgen,               \* the workload accepted or rejected by Workload::new, and the gen_unique of its keys
    \* ---- the writers of one process task and its ToSend actions (SpecSend) ----
    to_writers,         \* per connected peer: its writer channels (FIFO), one per connection
    snd_log,            \* the ToSend actions popped so far: their targets, in order
    snd_self,           \* history: per action, the calls of handle_message_from_self
    snd_received,       \* history: (peer, action) written to a connection of the peer, counted
    \* ---- clients that register at the executors of a process (SpecRegister) ----
    reg_client,         \* per client task: its position and the commands it issued
    client_to_executors, \* per executor: the channel client tasks -> executor (FIFO)
    workers_to_executors, \* per executor: the channel workers -> executor (FIFO)
    reg_cmds,           \* commands forwarded to the workers, not yet committed
    to_clients,         \* per executor: the clients in the index of its ToClients
    reg_results,        \* executor results sent to a client, and results dropped
    \* ---- the Newt protocol (SpecNewt, SpecNewtDup) ----
    newt,               \* per process: the Newt struct (bp, keys_clocks, cmds, to_executor) and its history
    newt_msgs,          \* the messages of the ToSend returned by the processes, not yet handled
    newt_dups           \* number of re-deliveries done so far

vars == <<gc_running, basic, msgs, dups, ticks, submitted, to_executors, executor,
          gct, gct_out, graph, commits, handed,
          atomic_dot_gen, client_task, assigned, from_clients, workload, generated,
          workers, reader_to_workers, wk_gen, wk_io, h_self, h_handled,
          executed_clock_snapshot, aux, aux_sent,
          shared_clocks, kc_threads, kc_votes,
          kgen,
          to_writers, snd_log, snd_self, snd_received,
          reg_client, client_to_executors, workers_to_executors, reg_cmds, to_clients, reg_results,
          newt, newt_msgs, newt_dups>>

basicVars == <<gc_running, basic, msgs, dups, ticks, submitted, to_executors, executor>>
gctVars   == <<gct, gct_out>>
graphVars == <<graph, commits, handed>>
genVars   == <<atomic_dot_gen, client_task, assigned, from_clients>>
wlVars    == <<workload, generated>>
wkVars    == <<workers, reader_to_workers, wk_gen, wk_io, h_self, h_handled>>
auxVars   == <<executed_clock_snapshot, aux, aux_sent>>
kcVars    == <<shared_clocks, kc_threads, kc_votes>>
kgVars    == <<kgen>>
sndVars   == <<to_writers, snd_log, snd_self, snd_received>>
regVars   == <<reg_client, client_to_executors, workers_to_executors, reg_cmds, to_clients, reg_results>>
newtVars  == <<newt, newt_msgs, newt_dups>>

\* the variables that the steps of one part leave unchanged
notBasicVars == <<gctVars, graphVars, genVars, wlVars, wkVars, auxVars, kcVars, kgVars, sndVars, regVars, newtVars>>
notGctVars   == <<basicVars, graphVars, genVars, wlVars, wkVars, auxVars, kcVars, kgVars, sndVars, regVars, newtVars>>
notGraphVars == <<basicVars, gctVars, genVars, wlVars, wkVars, auxVars, kcVars, kgVars, sndVars, regVars, newtVars>>
notGenVars   == <<basicVars, gctVars, graphVars, wlVars, wkVars, auxVars, kcVars, kgVars, sndVars, regVars, newtVars>>
notWlVars    == <<basicVars, gctVars, graphVars, genVars, wkVars, auxVars, kcVars, kgVars, sndVars, regVars, newtVars>>
notWkVars    == <<basicVars, gctVars, graphVars, genVars, wlVars, auxVars, kcVars, kgVars, sndVars, regVars, newtVars>>
notExecutorsVars == <<basicVars, gctVars, genVars, wlVars, wkVars, kcVars, kgVars, sndVars, regVars, newtVars>>
notKcVars == <<basicVars, gctVars, graphVars, genVars, wlVars, wkVars, auxVars, kgVars, sndVars, regVars, newtVars>>
notKgVars == <<basicVars, gctVars, graphVars, genVars, wlVars, wkVars, auxVars, kcVars, sndVars, regVars, newtVars>>
notSndVars == <<basicVars, gctVars, graphVars, genVars, wlVars, wkVars, auxVars, kcVars, kgVars, regVars, newtVars>>
notRegVars == <<basicVars, gctVars, graphVars, genVars, wlVars, wkVars, auxVars, kcVars, kgVars, sndVars, newtVars>>
notNewtVars == <<basicVars, gctVars, graphVars, genVars, wlVars, wkVars, auxVars, kcVars, kgVars, sndVars, regVars>>

(***************************************************************************)
(* Generic helpers                                                         *)
(***************************************************************************)
\* Option::None for a command
None == [rifl |-> <<0, 0>>, keys |-> {}]

Max(a, b) == IF a >= b THEN a ELSE b
Min(a, b) == IF a <= b THEN a ELSE b

\* f with key k set to v (the key is added when absent)
Put(f, k, v) == [x \in (DOMAIN f) \cup {k} |-> IF x = k THEN v ELSE f[x]]

\* f without key k
Del(f, k) == [x \in (DOMAIN f) \ {k} |-> f[x]]

EmptyMap == [x \in {} |-> 0]

\* all the sequences that enumerate the finite set S once
Perms(S) == {q \in [1..Cardinality(S) -> S] : \A i, j \in 1..Cardinality(S) : q[i] = q[j] => i = j}

\* the elements of set S, in the order in which they occur in sequence ord
RECURSIVE InOrder(_, _)
InOrder(S, ord) ==
    IF ord = <<>> THEN <<>>
    ELSE IF Head(ord) \in S THEN <<Head(ord)>> \o InOrder(S, Tail(ord))
    ELSE InOrder(S, Tail(ord))

\* the set of the elements of a sequence
Range(q) == {q[i] : i \in 1..Len(q)}

\* how many times x occurs in sequence q
Count(q, x) == Cardinality({i \in 1..Len(q) : q[i] = x})

\* the position of the first occurrence of x in sequence q
First(q, x) == CHOOSE i \in 1..Len(q) : q[i] = x /\ \A j \in 1..(i - 1) : q[j] # x

(***************************************************************************)
(* Identifiers and clocks                                                  *)
(***************************************************************************)
\* util::process_ids(shard_id, n) for shard 0: the process identifiers are 1..n
process_ids(n) == 1..n

\* Dot::new(source, sequence)
Dot(source, sequence) == <<source, sequence>>
source(dot) == dot[1]
sequence(dot) == dot[2]

\* the derived Ord of Dot: by source, then by sequence
DotLess(a, b) == \/ source(a) < source(b)
                 \/ (source(a) = source(b) /\ sequence(a) < sequence(b))

\* AEClock::frontier for one actor: the largest k with events 1..k all present
AEFrontier(events, p) ==
    CHOOSE k \in 0..Cardinality(events) :
        /\ \A i \in 1..k : Dot(p, i) \in events
        /\ Dot(p, k + 1) \notin events

\* the largest event number of the explorations
MaxEvent == 2

\* GCTrack::new(1, 0, n) of tests::gc_flow: n = 2
GcN == 2

\* VClock::with(process_ids): the bottom vector clock
bottom_vclock(n) == [p \in process_ids(n) |-> 0]

\* AEClock::with(process_ids): the bottom above-exception clock (no event)
bottom_aeclock == {}

\* VClock::join and VClock::meet (pointwise maximum / minimum)
join(a, b) == [p \in DOMAIN a |-> IF p \in DOMAIN b THEN Max(a[p], b[p]) ELSE a[p]]
meet(a, b) == [p \in DOMAIN a |-> IF p \in DOMAIN b THEN Min(a[p], b[p]) ELSE 0]

\* util::dots: the dots of a list of ranges (pid, start, end)
dots(ranges) == UNION {{Dot(r[1], i) : i \in r[2]..r[3]} : r \in ranges}

(***************************************************************************)
(* GCTrack (fantoch/src/protocol/gc.rs)                                    *)
(* A GCTrack is a record [process_id, n, my_clock, all_but_me,             *)
(* previous_stable]: my_clock is the set of events of the AEClock,         *)
(* all_but_me a map ProcessId -> VClock, previous_stable a VClock.         *)
(***************************************************************************)
GCTrack_new(process_id, n) ==
    [process_id      |-> process_id,
     n               |-> n,
     my_clock        |-> bottom_aeclock,
     all_but_me      |-> EmptyMap,
     previous_stable |-> bottom_vclock(n)]

\* GCTrack::clock: the frontier of the local clock
clock(g) == [p \in process_ids(g.n) |-> AEFrontier(g.my_clock, p)]

\* GCTrack::add_to_clock
add_to_clock(g, dot) == [g EXCEPT !.my_clock = @ \cup {dot}]

\* GCTrack::update_clock: the local clock is replaced
update_clock(g, events) == [g EXCEPT !.my_clock = events]

\* an update_clock_of that replaces what the process reported before
update_clock_of_replace(g, from, c) == [g EXCEPT !.all_but_me = Put(@, from, c)]

\* GCTrack::update_clock_of
update_clock_of(g, from, c) ==
    IF from \in DOMAIN g.all_but_me
    THEN [g EXCEPT !.all_but_me = Put(@, from, join(g.all_but_me[from], c))]
    ELSE [g EXCEPT !.all_but_me = Put(@, from, c)]

\* the meet of clock s with every clock of the map m
RECURSIVE MeetAll(_, _)
MeetAll(s, m) ==
    IF DOMAIN m = {} THEN s
    ELSE LET k == CHOOSE x \in DOMAIN m : TRUE
         IN  MeetAll(meet(s, m[k]), Del(m, k))

\* a stable clock that does not wait for the clocks of the other processes
stable_clock_local(g) == clock(g)

\* a stable clock that leaves the local clock out of the meet
stable_clock_peers(g) ==
    IF Cardinality(DOMAIN g.all_but_me) # g.n - 1
    THEN bottom_vclock(g.n)
    ELSE MeetAll([p \in process_ids(g.n) |-> MaxEvent], g.all_but_me)

\* a stable clock computed from whatever clocks have been reported so far
stable_clock_unchecked(g) == MeetAll(clock(g), g.all_but_me)

\* GCTrack::stable_clock
stable_clock(g) ==
    IF Cardinality(DOMAIN g.all_but_me) # g.n - 1
    THEN bottom_vclock(g.n)
    ELSE MeetAll(clock(g), g.all_but_me)

\* the range of newly stable dots of one process in GCTrack::stable:
\* start = previous.frontier() + 1, end = current.frontier()
stable_range(process_id, previous, current) == <<process_id, previous + 1, current>>

\* a stable() that leaves previous_stable as it was
stable_forgetful(g) ==
    [g    |-> g,
     dots |-> {r \in {stable_range(p, g.previous_stable[p], stable_clock(g)[p]) :
                        p \in DOMAIN g.previous_stable} : ~(r[2] > r[3])}]

\* a stable() that stores the new stable clock as it was computed
stable_unjoined(g) ==
    [g    |-> [g EXCEPT !.previous_stable = stable_clock(g)],
     dots |-> {r \in {stable_range(p, g.previous_stable[p], stable_clock(g)[p]) :
                        p \in DOMAIN g.previous_stable} : ~(r[2] > r[3])}]

\* GCTrack::stable: the new GCTrack and the ranges returned
stable(g) ==
    LET new_stable == stable_clock(g)
        ranges == {stable_range(p, g.previous_stable[p], new_stable[p]) :
                       p \in DOMAIN g.previous_stable}
    IN  [g    |-> [g EXCEPT !.previous_stable = join(new_stable, g.previous_stable)],
         dots |-> {r \in ranges : ~(r[2] > r[3])}]

(***************************************************************************)
(* Basic protocol: configuration                                           *)
(***************************************************************************)
\* Config::new(n, f) of tests::basic_flow
N == 3
F == 1

\* the processes of the (single) shard
Procs == process_ids(N)

\* Config::basic_quorum_size: the number of acks the coordinator waits for
\* ("waits for f + 1 acks before committing a command")
basic_quorum_size == F + 1

\* the keys commands may access and the clients; client c is connected to
\* process c (its closest process)
Keys == {"K1", "K2"}
Clients == {1, 2}

\* the workload of Spec and SpecBasicGC: every command accesses K1 (any two
\* commands conflict)
ConflictKeys(c) == {"K1"}

\* bounds of the exploration: commands submitted (Spec / SpecBasicGC),
\* messages delivered twice, garbage-collection events
MaxCmds == 2
MaxCmdsGC == 1
MaxDups == 1
MaxTicks == 2

\* Rifl::new(client, seq)
Rifl(c, seq) == <<c, seq>>

\* the processes sorted by distance from p (p itself first)
sorted_processes(p) == [i \in 1..N |-> ((p - 1 + (i - 1)) % N) + 1]

\* BaseProcess::fast_quorum: the fast_quorum_size closest processes
fast_quorum(p) == {sorted_processes(p)[i] : i \in 1..basic_quorum_size}

\* BaseProcess::all and BaseProcess::all_but_me
all == Procs
all_but_me(p) == Procs \ {p}

(***************************************************************************)
(* CommandsInfo<BasicInfo> (fantoch/src/protocol/info.rs)                  *)
(***************************************************************************)
\* BasicInfo::new: the bottom info
BasicInfo_new == [cmd |-> None, acks |-> {}]

\* CommandsInfo::get: the info of dot, created when absent
cmds_get(dot_to_info, dot) ==
    IF dot \in DOMAIN dot_to_info THEN dot_to_info ELSE Put(dot_to_info, dot, BasicInfo_new)

\* a gc that removes nothing from the table
cmds_gc_keep(dot_to_info, stable_ranges) == dot_to_info

\* CommandsInfo::gc: removes the stable dots that exist locally
cmds_gc(dot_to_info, stable_ranges) ==
    [d \in (DOMAIN dot_to_info) \ dots(stable_ranges) |-> dot_to_info[d]]

\* CommandsInfo::gc_single
gc_single(dot_to_info, dot) == Del(dot_to_info, dot)

(***************************************************************************)
(* Basic (fantoch/src/protocol/basic.rs)                                   *)
(* The struct of process p is a record; the fields h_* are history         *)
(* (what the handlers did), the others are the fields of the code.         *)
(***************************************************************************)
Basic_new(p) ==
    [process_id   |-> p,
     dot_gen      |-> 0,
     dot_to_info  |-> EmptyMap,
     gc_track     |-> GCTrack_new(p, N),
     to_processes |-> <<>>,
     to_executors |-> <<>>,
     stable       |-> 0,
     panicked     |-> FALSE,
     h_submits    |-> EmptyMap,   \* dot -> the actions handle_submit pushed for it
     h_targets    |-> EmptyMap,   \* dot -> the targets of the MCommit actions emitted
     h_acks       |-> EmptyMap,   \* dot -> senders of the MStoreAcks handled
     h_mcommits   |-> EmptyMap,   \* dot -> number of MCommit actions emitted
     h_commits    |-> <<>>,       \* the (dot, cmd) of the MCommits handled, in order
     h_gc         |-> {}]         \* dots removed from the table by gc

ToSend(target, msg) == [kind |-> "ToSend", target |-> target, msg |-> msg]
ToForward(msg) == [kind |-> "ToForward", msg |-> msg]

MStore(dot, cmd) == [type |-> "MStore", dot |-> dot, cmd |-> cmd]
MStoreAck(dot) == [type |-> "MStoreAck", dot |-> dot]
MCommit(dot, cmd) == [type |-> "MCommit", dot |-> dot, cmd |-> cmd]
MCommitDot(dot) == [type |-> "MCommitDot", dot |-> dot]
MGarbageCollection(committed) == [type |-> "MGarbageCollection", committed |-> committed]
MStable(stable_ranges) == [type |-> "MStable", stable |-> stable_ranges]

\* a handle_submit that sends the MStore to every process
handle_submit_to_all(s, cmd) ==
    [s EXCEPT !.dot_gen = @ + 1,
              !.to_processes = Append(@, ToSend(all, MStore(Dot(s.process_id, s.dot_gen + 1), cmd))),
              !.h_submits = Put(@, Dot(s.process_id, s.dot_gen + 1),
                                <<ToSend(all, MStore(Dot(s.process_id, s.dot_gen + 1), cmd))>>)]

\* Basic::handle_submit (dot = None: the dot comes from the dot generator)
handle_submit(s, cmd) ==
    LET dot == Dot(s.process_id, s.dot_gen + 1)
        s1  == [s EXCEPT !.dot_gen = @ + 1,
                         !.to_processes = Append(@, ToSend(fast_quorum(s.process_id), MStore(dot, cmd)))]
    IN  [s1 EXCEPT !.h_submits =
            Put(@, dot, SubSeq(s1.to_processes, Len(s.to_processes) + 1, Len(s1.to_processes)))]

\* a handle_mstore that acknowledges without updating the command info
handle_mstore_ack_only(s, from, dot, cmd) ==
    [s EXCEPT !.dot_to_info = cmds_get(s.dot_to_info, dot),
              !.to_processes = Append(@, ToSend({from}, MStoreAck(dot)))]

\* Basic::handle_mstore
handle_mstore(s, from, dot, cmd) ==
    LET infos == cmds_get(s.dot_to_info, dot)
    IN  [s EXCEPT !.dot_to_info = [infos EXCEPT ![dot].cmd = cmd],
                  !.to_processes = Append(@, ToSend({from}, MStoreAck(dot)))]

\* a coordinator that commits one ack too early
all_replies_early(acks) == Cardinality(acks) = basic_quorum_size - 1

\* the check of handle_mstoreack: "we have all necessary replies"
all_replies(acks) == Cardinality(acks) = basic_quorum_size

\* Basic::handle_mstoreack
handle_mstoreack(s, from, dot) ==
    LET infos == cmds_get(s.dot_to_info, dot)
        acks  == infos[dot].acks \cup {from}
        s1    == [s EXCEPT !.dot_to_info = [infos EXCEPT ![dot].acks = acks],
                           !.h_acks = Put(@, dot, (IF dot \in DOMAIN @ THEN @[dot] ELSE {}) \cup {from})]
    IN  IF all_replies(acks)
        THEN IF infos[dot].cmd = None
             THEN [s1 EXCEPT !.panicked = TRUE]     \* expect("command should exist")
             ELSE LET s2 == [s1 EXCEPT !.to_processes = Append(@, ToSend(all, MCommit(dot, infos[dot].cmd)))]
                  IN  [s2 EXCEPT !.h_mcommits = Put(@, dot, (IF dot \in DOMAIN @ THEN @[dot] ELSE 0) + 1),
                                 !.h_targets = Put(@, dot, (IF dot \in DOMAIN @ THEN @[dot] ELSE {})
                                                   \cup {s2.to_processes[Len(s2.to_processes)].target})]
        ELSE s1

\* the execution infos of a command: one per key, keys in order kord
execution_infos(cmd, kord) ==
    LET ks == InOrder(cmd.keys, kord)
    IN  [i \in 1..Len(ks) |-> [rifl |-> cmd.rifl, key |-> ks[i]]]

\* a handle_mcommit that drops the command info also when GC is running
handle_mcommit_drop(s, from, dot, cmd, kord) ==
    [s EXCEPT !.dot_to_info = gc_single(cmds_get(@, dot), dot),
              !.to_executors = @ \o execution_infos(cmd, kord),
              !.to_processes = IF gc_running THEN Append(@, ToForward(MCommitDot(dot))) ELSE @,
              !.h_commits = Append(@, [dot |-> dot, cmd |-> cmd])]

\* a handle_mcommit that sends MCommitDot to all processes
handle_mcommit_send_dot(s, from, dot, cmd, kord) ==
    LET infos == cmds_get(s.dot_to_info, dot)
        s1    == [s EXCEPT !.dot_to_info = [infos EXCEPT ![dot].cmd = cmd],
                           !.to_executors = @ \o execution_infos(cmd, kord),
                           !.h_commits = Append(@, [dot |-> dot, cmd |-> cmd])]
    IN  IF gc_running
        THEN [s1 EXCEPT !.to_processes = Append(@, ToSend(all, MCommitDot(dot)))]
        ELSE [s1 EXCEPT !.dot_to_info = gc_single(@, dot)]

\* Basic::handle_mcommit
handle_mcommit(s, from, dot, cmd, kord) ==
    LET infos == cmds_get(s.dot_to_info, dot)
        s1    == [s EXCEPT !.dot_to_info = [infos EXCEPT ![dot].cmd = cmd],
                           !.to_executors = @ \o execution_infos(cmd, kord),
                           !.h_commits = Append(@, [dot |-> dot, cmd |-> cmd])]
    IN  IF gc_running
        THEN [s1 EXCEPT !.to_processes = Append(@, ToForward(MCommitDot(dot)))]
        ELSE [s1 EXCEPT !.dot_to_info = gc_single(@, dot)]

\* Basic::handle_mcommit_dot
handle_mcommit_dot(s, from, dot) ==
    IF from # s.process_id
    THEN [s EXCEPT !.panicked = TRUE]               \* assert_eq!(from, process_id)
    ELSE [s EXCEPT !.gc_track = add_to_clock(@, dot)]

\* Basic::handle_mgc
handle_mgc(s, from, committed) ==
    LET r  == stable(update_clock_of(s.gc_track, from, committed))
        s1 == [s EXCEPT !.gc_track = r.g]
    IN  IF r.dots # {}
        THEN [s1 EXCEPT !.to_processes = Append(@, ToForward(MStable(r.dots)))]
        ELSE s1

\* Basic::handle_mstable
handle_mstable(s, from, stable_ranges) ==
    IF from # s.process_id
    THEN [s EXCEPT !.panicked = TRUE]               \* assert_eq!(from, process_id)
    ELSE LET removed == (DOMAIN s.dot_to_info) \cap dots(stable_ranges)
         IN  [s EXCEPT !.dot_to_info = cmds_gc(@, stable_ranges),
                       !.stable = @ + Cardinality(removed),
                       !.h_gc = @ \cup removed]

\* Basic::handle_event_garbage_collection
handle_event_garbage_collection(s) ==
    [s EXCEPT !.to_processes =
        Append(@, ToSend(all_but_me(s.process_id), MGarbageCollection(clock(s.gc_track))))]

\* Basic::handle (Protocol::handle)
handle(s, from, msg, kord) ==
    CASE msg.type = "MStore"    -> handle_mstore(s, from, msg.dot, msg.cmd)
      [] msg.type = "MStoreAck" -> handle_mstoreack(s, from, msg.dot)
      [] msg.type = "MCommit"   -> handle_mcommit(s, from, msg.dot, msg.cmd, kord)
      [] msg.type = "MCommitDot" -> handle_mcommit_dot(s, from, msg.dot)
      [] msg.type = "MGarbageCollection" -> handle_mgc(s, from, msg.committed)
      [] msg.type = "MStable"   -> handle_mstable(s, from, msg.stable)

(***************************************************************************)
(* The process task with one protocol worker (run/task/process.rs) and     *)
(* the executor task                                                       *)
(***************************************************************************)
\* send_to_processes_and_executors: pops the actions of the protocol until
\* none is left; a message whose target holds the process itself, and a
\* ToForward, is handled in-line (handle_message_from_self with a single
\* worker); out collects the messages handed to the writers
RECURSIVE send_to_processes(_, _, _)
send_to_processes(s, out, kord) ==
    IF s.panicked \/ s.to_processes = <<>>
    THEN [s |-> s, out |-> out]
    ELSE LET a  == s.to_processes[Len(s.to_processes)]
             s0 == [s EXCEPT !.to_processes = SubSeq(@, 1, Len(@) - 1)]
             p  == s.process_id
         IN  IF a.kind = "ToSend"
             THEN send_to_processes(
                      IF p \in a.target THEN handle(s0, p, a.msg, kord) ELSE s0,
                      out \cup {[from |-> p, to |-> q, msg |-> a.msg] : q \in a.target \ {p}},
                      kord)
             ELSE send_to_processes(handle(s0, p, a.msg, kord), out, kord)

\* Basic::to_executors, called until it returns None: pops from the back
RECURSIVE to_executors_iter(_)
to_executors_iter(q) ==
    IF q = <<>> THEN <<>> ELSE <<q[Len(q)]>> \o to_executors_iter(SubSeq(q, 1, Len(q) - 1))

\* the state after process p ran the worker loop body on its struct s
Worker(p, s, kept, kord) ==
    LET r == send_to_processes(s, {}, kord)
    IN  /\ basic' = [basic EXCEPT ![p] = [r.s EXCEPT !.to_executors = <<>>]]
        /\ msgs' = kept \cup r.out
        /\ to_executors' = [to_executors EXCEPT ![p] = @ \o to_executors_iter(r.s.to_executors)]

\* the number of commands submitted so far
NumSubmitted == submitted[1] + submitted[2]

\* a client submits its next command (on the keys given) to its process
Submit(c, keys, max) ==
    /\ NumSubmitted < max
    /\ ~basic[c].panicked
    /\ LET cmd == [rifl |-> Rifl(c, submitted[c] + 1), keys |-> keys]
       IN  \E kord \in Perms(Keys) : Worker(c, handle_submit(basic[c], cmd), msgs, kord)
    /\ submitted' = [submitted EXCEPT ![c] = @ + 1]
    /\ UNCHANGED <<gc_running, dups, ticks, executor>>

\* a worker handles a message from a peer (handle_from_processes)
Receive(m) ==
    /\ m \in msgs
    /\ ~basic[m.to].panicked
    /\ \E kord \in Perms(Keys) :
           Worker(m.to, handle(basic[m.to], m.from, m.msg, kord), msgs \ {m}, kord)
    /\ UNCHANGED <<gc_running, dups, ticks, submitted, executor>>

\* the same, for a message that is delivered once more later
ReceiveDuplicated(m) ==
    /\ m \in msgs
    /\ dups < MaxDups
    /\ ~basic[m.to].panicked
    /\ \E kord \in Perms(Keys) :
           Worker(m.to, handle(basic[m.to], m.from, m.msg, kord), msgs, kord)
    /\ dups' = dups + 1
    /\ UNCHANGED <<gc_running, ticks, submitted, executor>>

\* a worker handles an MStoreAck for a dot it coordinates that comes from a
\* process outside the fast quorum of the dot (once per dot)
ReceiveStrayAck(p, from, dot) ==
    /\ ~basic[p].panicked
    /\ dot \in DOMAIN basic[p].h_submits
    /\ from \in Procs \ fast_quorum(p)
    /\ from \notin (IF dot \in DOMAIN basic[p].h_acks THEN basic[p].h_acks[dot] ELSE {})
    /\ \E kord \in Perms(Keys) :
           Worker(p, handle(basic[p], from, MStoreAck(dot), kord), msgs, kord)
    /\ UNCHANGED <<gc_running, dups, ticks, submitted, executor>>

\* the periodic task fires the GarbageCollection event
PeriodicGarbageCollection(p) ==
    /\ gc_running
    /\ ticks < MaxTicks
    /\ ~basic[p].panicked
    /\ \E kord \in Perms(Keys) :
           Worker(p, handle_event_garbage_collection(basic[p]), msgs, kord)
    /\ ticks' = ticks + 1
    /\ UNCHANGED <<gc_running, dups, submitted, executor>>

\* the periodic task fires the GarbageCollection event once more (the
\* interval timer never stops); the interval is long enough for the
\* previous broadcast of the process to have been handled
GarbageCollectionTick(p) ==
    /\ gc_running
    /\ \A m \in msgs : ~(m.from = p /\ m.msg.type = "MGarbageCollection")
    /\ ~basic[p].panicked
    /\ \E kord \in Perms(Keys) :
           Worker(p, handle_event_garbage_collection(basic[p]), msgs, kord)
    /\ UNCHANGED <<gc_running, dups, ticks, submitted, executor>>

\* BasicExecutor::handle on the next execution info of the channel
BasicExecutor_handle(e, info) ==
    [e EXCEPT !.store = Put(@, info.key, info.rifl),
              !.monitor = Put(@, info.key,
                              Append(IF info.key \in DOMAIN @ THEN @[info.key] ELSE <<>>, info.rifl))]

\* an executor task that takes the newest execution info of the channel
ExecutorHandle_newest(p) ==
    /\ to_executors[p] # <<>>
    /\ executor' = [executor EXCEPT
           ![p] = BasicExecutor_handle(@, to_executors[p][Len(to_executors[p])])]
    /\ to_executors' = [to_executors EXCEPT ![p] = SubSeq(@, 1, Len(@) - 1)]
    /\ UNCHANGED <<gc_running, basic, msgs, dups, ticks, submitted>>

\* the executor task: from_workers.recv(), then executor.handle
ExecutorHandle(p) ==
    /\ to_executors[p] # <<>>
    /\ executor' = [executor EXCEPT ![p] = BasicExecutor_handle(@, Head(to_executors[p]))]
    /\ to_executors' = [to_executors EXCEPT ![p] = Tail(@)]
    /\ UNCHANGED <<gc_running, basic, msgs, dups, ticks, submitted>>

GctInit == /\ gct = GCTrack_new(1, GcN)
           /\ gct_out = <<>>

(***************************************************************************)
(* The dependency graph executor                                           *)
(* (fantoch_ps/src/executor/graph/mod.rs, tarjan.rs, index.rs)             *)
(* A DependencyGraph is a record: vertex_index maps a dot to its Vertex,   *)
(* pending_index a dependency dot to the dots waiting for it,              *)
(* executed_clock is the set of events of the AEClock, finder_* are the    *)
(* fields of the TarjanSCCFinder, to_execute the commands ready; h_emitted *)
(* (the dots pushed to to_execute, in order) and h_sccs (the SCCs saved)   *)
(* are history.                                                            *)
(***************************************************************************)
\* Config::new(n, f) of tests::simple: n = 2
GN == 2

\* the largest sequence number of a dot handed to the graph
MaxSeq == 2

GProcs == process_ids(GN)
GDots == {Dot(p, i) : p \in GProcs, i \in 1..MaxSeq}

\* the command of a dot, as tests::check_termination builds it: the Rifl
\* comes from the dot, the single key is CONF
conflicting_command(dot) == [rifl |-> Rifl(source(dot), sequence(dot)), keys |-> {"CONF"}]

\* the clocks a commit of dot may carry: one entry per process, the entry
\* of the dot's own process not above the dot
ClocksOf(dot) == {c \in [GProcs -> 0..MaxSeq] : c[source(dot)] <= sequence(dot)}

\* DependencyGraph::new
DependencyGraph_new ==
    [vertex_index   |-> EmptyMap,
     pending_index  |-> EmptyMap,
     executed_clock |-> bottom_aeclock,
     finder_id      |-> 0,
     finder_stack   |-> <<>>,
     finder_sccs    |-> <<>>,
     to_execute     |-> <<>>,
     panicked       |-> FALSE,
     h_emitted      |-> <<>>,
     h_sccs         |-> {}]

\* Vertex::new
Vertex_new(dot, cmd, clk) ==
    [dot |-> dot, cmd |-> cmd, clock |-> clk, id |-> 0, low |-> 0, on_stack |-> FALSE]

\* PendingIndex::index: dot becomes a child of dep_dot
PendingIndex_index(index, dep_dot, dot) ==
    Put(index, dep_dot, (IF dep_dot \in DOMAIN index THEN index[dep_dot] ELSE {}) \cup {dot})

\* the dots of a set in ascending order (the iteration of a BTreeSet<Dot>)
RECURSIVE SortDots(_)
SortDots(S) ==
    IF S = {} THEN <<>>
    ELSE LET m == CHOOSE x \in S : \A y \in S \ {x} : DotLess(x, y)
         IN  <<m>> \o SortDots(S \ {m})

\* TarjanSCCFinder::strong_connect on dot, and its loop over the entries of
\* the vertex clock (rest: the processes still to iterate, pord: the order
\* in which the clock's map is iterated); a result holds the graph, the
\* commands found so far, the FinderResult and the missing dependencies
RECURSIVE strong_connect(_, _, _, _)
RECURSIVE deps_loop(_, _, _, _, _)

\* the entry of strong_connect: the vertex gets the next id and is pushed
strong_connect_visit(g, dot) ==
    [g EXCEPT !.finder_id = g.finder_id + 1,
              !.vertex_index[dot].id = g.finder_id + 1,
              !.vertex_index[dot].low = g.finder_id + 1,
              !.vertex_index[dot].on_stack = TRUE,
              !.finder_stack = Append(@, dot)]

\* the end of strong_connect, r being the result of the loop: when
\* id = low the members of the SCC are popped from the stack
strong_connect_scc(r, dot) ==
    IF r.result = "MissingDependencies" THEN r
    ELSE IF r.g.vertex_index[dot].id = r.g.vertex_index[dot].low
    THEN LET stack == r.g.finder_stack
             i     == CHOOSE j \in 1..Len(stack) : stack[j] = dot
             scc   == {stack[j] : j \in i..Len(stack)}
         IN  [g |-> [r.g EXCEPT
                       !.finder_stack = SubSeq(stack, 1, i - 1),
                       !.vertex_index = [d \in DOMAIN @ |->
                           IF d \in scc THEN [@[d] EXCEPT !.on_stack = FALSE] ELSE @[d]],
                       !.executed_clock = @ \cup scc,
                       !.finder_sccs = Append(@, scc)],
              found  |-> r.found + Cardinality(scc),
              result |-> "Found",
              deps   |-> {}]
    ELSE [g |-> r.g, found |-> r.found, result |-> "NotFound", deps |-> {}]

strong_connect(g, dot, found, pord) ==
    strong_connect_scc(deps_loop(strong_connect_visit(g, dot), dot, found, pord, pord), dot)

\* the loop after the visit of the non-visited dependency dep_dot, r being
\* the result of that visit
deps_loop_visited(r, dot, dep_dot, rest, pord) ==
    IF r.result = "MissingDependencies" THEN r
    ELSE deps_loop([r.g EXCEPT !.vertex_index[dot].low = Min(@, r.g.vertex_index[dep_dot].low)],
                   dot, r.found, rest, pord)

deps_loop(g, dot, found, rest, pord) ==
    IF rest = <<>>
    THEN [g |-> g, found |-> found, result |-> "Done", deps |-> {}]
    ELSE LET process_id == Head(rest)
             dep_dot    == Dot(process_id, g.vertex_index[dot].clock[process_id])
         IN  IF dot = dep_dot
             THEN deps_loop(g, dot, found, Tail(rest), pord)       \* ignore self
             ELSE IF dep_dot \notin DOMAIN g.vertex_index
             THEN [g |-> g, found |-> found, result |-> "MissingDependencies",
                   deps |-> {dep_dot}]
             ELSE IF g.vertex_index[dep_dot].id = 0
             THEN deps_loop_visited(strong_connect(g, dep_dot, found, pord),
                                    dot, dep_dot, Tail(rest), pord)
             ELSE IF g.vertex_index[dep_dot].on_stack
             THEN deps_loop(
                      [g EXCEPT !.vertex_index[dot].low = Min(@, g.vertex_index[dep_dot].id)],
                      dot, found, Tail(rest), pord)
             ELSE deps_loop(g, dot, found, Tail(rest), pord)

\* a finalize that resets the finder but leaves the ids of the vertices
finalize_keep_ids(g) ==
    [g |-> [g EXCEPT !.finder_id = 0, !.finder_stack = <<>>],
     visited |-> Range(g.finder_stack)]

\* TarjanSCCFinder::finalize: resets the finder and the id of the vertices
\* left on the stack; returns the dots visited
finalize(g) ==
    [g |-> [g EXCEPT !.finder_id = 0,
                     !.finder_stack = <<>>,
                     !.vertex_index = [d \in DOMAIN @ |->
                         IF d \in Range(g.finder_stack) THEN [@[d] EXCEPT !.id = 0] ELSE @[d]]],
     visited |-> Range(g.finder_stack)]

\* a save_scc that queues the command of the first member only
save_scc_first(g, scc) ==
    [g EXCEPT !.vertex_index = [d \in (DOMAIN @) \ scc |-> @[d]],
              !.to_execute = Append(@, g.vertex_index[SortDots(scc)[1]].cmd),
              !.h_emitted = @ \o SortDots(scc),
              !.h_sccs = @ \cup {scc}]

\* DependencyGraph::save_scc: the members leave the vertex index and their
\* commands are pushed to to_execute, in ascending dot order
save_scc(g, scc) ==
    IF ~(scc \subseteq DOMAIN g.vertex_index)
    THEN [g EXCEPT !.panicked = TRUE]          \* expect("dots from an SCC should exist")
    ELSE
    [g EXCEPT !.vertex_index = [d \in (DOMAIN @) \ scc |-> @[d]],
              !.to_execute = @ \o [i \in 1..Cardinality(scc) |-> g.vertex_index[SortDots(scc)[i]].cmd],
              !.h_emitted = @ \o SortDots(scc),
              !.h_sccs = @ \cup {scc}]

\* the loop of find_scc over the SCCs found: the graph and the ready dots
RECURSIVE save_sccs(_, _, _)
save_sccs(g, sccs, ready) ==
    IF sccs = <<>> THEN [g |-> g, dots |-> ready]
    ELSE save_sccs(save_scc(g, Head(sccs)), Tail(sccs), ready \o SortDots(Head(sccs)))

\* find_scc after the finder ran (r its result, s the saved SCCs): the
\* finder is reset, the FinderInfo (kind, dots, deps, visited) is built
find_scc_info(r, s) ==
    [g       |-> IF r.result = "NotFound"
                 THEN [finalize(s.g).g EXCEPT !.panicked = TRUE]
                 ELSE finalize(s.g).g,
     kind    |-> r.result,
     dots    |-> s.dots,
     deps    |-> r.deps,
     visited |-> finalize(s.g).visited,
     found   |-> r.found]

\* find_scc after the finder ran: the SCCs found are saved
find_scc_save(r) ==
    find_scc_info(r, save_sccs([r.g EXCEPT !.finder_sccs = <<>>], r.g.finder_sccs, <<>>))

\* DependencyGraph::find_scc (with DependencyGraph::strong_connect): the
\* graph, the FinderInfo and the number of commands found
find_scc(g, dot, pord) ==
    IF dot \notin DOMAIN g.vertex_index
    THEN [g |-> g, kind |-> "NotPending", dots |-> <<>>, deps |-> {}, visited |-> {},
          found |-> 0]
    ELSE find_scc_save(strong_connect(g, dot, 0, pord))

\* DependencyGraph::index_pending (one shard: no request is sent)
\* an index_pending that indexes nothing
index_pending_nothing(g, missing_deps, dot) == g

RECURSIVE index_pending(_, _, _)
index_pending(g, missing_deps, dot) ==
    IF missing_deps = {} THEN g
    ELSE LET dep_dot == CHOOSE d \in missing_deps : TRUE
         IN  index_pending(
                 [g EXCEPT !.pending_index = PendingIndex_index(@, dep_dot, dot)],
                 missing_deps \ {dep_dot}, dot)

\* DependencyGraph::try_pending on the pending dots (in iteration order),
\* and DependencyGraph::check_pending on the stack of ready dots; found
\* counts the commands found, pord and dord are the iteration orders of the
\* clock maps and of the sets of dots
RECURSIVE try_pending(_, _, _, _, _, _)

\* the match of try_pending on the FinderInfo r of the pending dot
try_pending_match(r, dot, pending, ready, visited, found, pord) ==
    CASE r.kind = "Found" ->
             try_pending(r.g, pending, ready \o r.dots, {}, found + r.found, pord)
      [] r.kind = "MissingDependencies" ->
             try_pending(index_pending(r.g, r.deps, dot), pending, ready \o r.dots,
                         IF r.dots # <<>> THEN {} ELSE visited \cup r.visited,
                         found + r.found, pord)
      [] OTHER ->
             try_pending(r.g, pending, ready, visited, found + r.found, pord)

try_pending(g, pending, ready, visited, found, pord) ==
    IF pending = <<>> THEN [g |-> g, dots |-> ready, found |-> found]
    ELSE IF Head(pending) \in visited
    THEN try_pending(g, Tail(pending), ready, visited, found, pord)
    ELSE try_pending_match(find_scc(g, Head(pending), pord), Head(pending), Tail(pending),
                           ready, visited, found, pord)

RECURSIVE check_pending(_, _, _, _, _)

\* check_pending goes on with what try_pending (result r) left
check_pending_tried(r, pord, dord) == check_pending(r.g, r.dots, r.found, pord, dord)

check_pending(g, ready, found, pord, dord) ==
    IF ready = <<>> \/ g.panicked THEN [g |-> g, found |-> found]
    ELSE IF ready[Len(ready)] \in DOMAIN g.pending_index
    THEN check_pending_tried(
             try_pending([g EXCEPT !.pending_index = Del(@, ready[Len(ready)])],
                         InOrder(g.pending_index[ready[Len(ready)]], dord),
                         SubSeq(ready, 1, Len(ready) - 1), {}, found, pord),
             pord, dord)
    ELSE check_pending(g, SubSeq(ready, 1, Len(ready) - 1), found, pord, dord)

\* the end of handle_add, c being the result of check_pending: all newly
\* ready commands have been incorporated
handle_add_ready(c, initial_ready) ==
    IF Len(c.g.to_execute) # initial_ready + c.found
    THEN [c.g EXCEPT !.panicked = TRUE]
    ELSE c.g

\* the match of handle_add on the FinderInfo r of the dot added
handle_add_match(r, dot, initial_ready, pord, dord) ==
    handle_add_ready(
        check_pending(IF r.kind = "MissingDependencies"
                      THEN index_pending(r.g, r.deps, dot)
                      ELSE r.g,
                      r.dots, r.found, pord, dord),
        initial_ready)

\* DependencyGraph::handle_add
handle_add(g, dot, cmd, clk, pord, dord) ==
    IF dot \in DOMAIN g.vertex_index
    THEN [g EXCEPT !.panicked = TRUE]          \* tried to index already indexed
    ELSE handle_add_match(
             find_scc([g EXCEPT !.vertex_index = Put(@, dot, Vertex_new(dot, cmd, clk))],
                      dot, pord),
             dot, Len(g.to_execute), pord, dord)

\* DependencyGraph::command_to_execute: Vec::pop
command_to_execute(g) ==
    IF g.to_execute = <<>>
    THEN [g |-> g, cmd |-> None]
    ELSE [g   |-> [g EXCEPT !.to_execute = SubSeq(@, 1, Len(@) - 1)],
          cmd |-> g.to_execute[Len(g.to_execute)]]

\* the orders in which a clock's map may be iterated, and those in which a
\* set of dots may be iterated
ProcOrders == Perms(GProcs)
DotOrders == [S \in SUBSET GDots |-> Perms(S)]

\* the dots in the pending index
PendingDots(g) == UNION {g.pending_index[d] : d \in DOMAIN g.pending_index}

\* the iteration orders of the sets of pending dots that handle_add can
\* meet: check_pending iterates a set only when the first search found an SCC
SetOrders(g, dot, clk, pord) ==
    LET g1 == [g EXCEPT !.vertex_index = Put(@, dot, Vertex_new(dot, conflicting_command(dot), clk))]
    IN  IF find_scc(g1, dot, pord).dots = <<>>
        THEN {SortDots(GDots)}
        ELSE DotOrders[PendingDots(g) \cup {dot}]

\* a commit is handed to the graph (each dot once)
HandleAdd(dot, clk) ==
    /\ ~graph.panicked
    /\ dot \notin DOMAIN commits
    /\ \E pord \in ProcOrders :
       \E dord \in SetOrders(graph, dot, clk, pord) :
           graph' = handle_add(graph, dot, conflicting_command(dot), clk, pord, dord)
    /\ commits' = Put(commits, dot, clk)
    /\ UNCHANGED handed

\* the consumer takes the next command to execute
CommandToExecute ==
    /\ graph.to_execute # <<>>
    /\ graph' = command_to_execute(graph).g
    /\ handed' = Append(handed, command_to_execute(graph).cmd)
    /\ UNCHANGED commits

NextGraph ==
    \/ \E dot \in GDots : \E clk \in ClocksOf(dot) :
           HandleAdd(dot, clk) /\ UNCHANGED notGraphVars
    \/ CommandToExecute /\ UNCHANGED notGraphVars

GraphInit == /\ graph = DependencyGraph_new
             /\ commits = EmptyMap
             /\ handed = <<>>

BasicInit ==
    /\ gc_running \in BOOLEAN
    /\ basic = [p \in Procs |-> Basic_new(p)]
    /\ msgs = {}
    /\ dups = 0
    /\ ticks = 0
    /\ submitted = [c \in Clients |-> 0]
    /\ to_executors = [p \in Procs |-> <<>>]
    /\ executor = [p \in Procs |-> [store |-> EmptyMap, monitor |-> EmptyMap]]

(***************************************************************************)
(* The dot generator of a process (AtomicDotGen), shared by the tasks that *)
(* serve its clients: a task takes the next dot (one atomic fetch-and-add) *)
(* and then forwards the submit with that dot to the protocol worker       *)
(***************************************************************************)
\* the process whose generator is explored, its client tasks, and the
\* number of dots generated in an exploration
GenProcess == 1
ClientTasks == 1..3
MaxIds == 4

\* a generator that returns the value the counter had before the increment
next_id_previous(last) == last

\* the identifier returned by the generator when its counter holds last
next_id(last) == last + 1

\* a client task takes the dot of its next command
NextDot(t) ==
    /\ client_task[t].pc = "idle"
    /\ atomic_dot_gen < MaxIds
    /\ atomic_dot_gen' = atomic_dot_gen + 1
    /\ client_task' = [client_task EXCEPT
           ![t] = [pc |-> "forward", dot |-> Dot(GenProcess, next_id(atomic_dot_gen))]]
    /\ assigned' = Append(assigned, Dot(GenProcess, next_id(atomic_dot_gen)))
    /\ UNCHANGED from_clients

\* a client task forwards the submit, with its dot, to the worker
ForwardSubmit(t) ==
    /\ client_task[t].pc = "forward"
    /\ from_clients' = Append(from_clients, client_task[t].dot)
    /\ client_task' = [client_task EXCEPT ![t] = [pc |-> "idle", dot |-> Dot(0, 0)]]
    /\ UNCHANGED <<atomic_dot_gen, assigned>>

NextDotGen ==
    \/ \E t \in ClientTasks : NextDot(t) /\ UNCHANGED notGenVars
    \/ \E t \in ClientTasks : ForwardSubmit(t) /\ UNCHANGED notGenVars

GenInit ==
    /\ atomic_dot_gen = 0
    /\ client_task = [t \in ClientTasks |-> [pc |-> "idle", dot |-> Dot(0, 0)]]
    /\ assigned = <<>>
    /\ from_clients = <<>>

(***************************************************************************)
(* The client workload (fantoch/src/client/workload.rs): next_cmd          *)
(* generates commands on shards drawn at random by the shard generator     *)
(***************************************************************************)
\* the shards of ShardGen::Random { shards: 3 }, shards_per_command, the
\* number of random draws explored for one command, and commands_per_client
ShardIds == 0..2
ShardsPerCommand == 2
MaxDraws == 3
CommandsPerClient == 3

\* Workload::gen_unique: values are drawn (here: taken from the sequence
\* draws) and inserted into a set until the set holds count values; the
\* result is the set, and ok tells whether the draws sufficed
RECURSIVE gen_unique(_, _, _)
gen_unique(count, draws, values) ==
    IF Cardinality(values) = count THEN [ok |-> TRUE, values |-> values]
    ELSE IF draws = <<>> THEN [ok |-> FALSE, values |-> values]
    ELSE gen_unique(count, Tail(draws), values \cup {Head(draws)})

\* a gen_cmd that always targets shard 0
gen_cmd_shard_zero(w, draws) ==
    [target_shard |-> 0,
     first_drawn  |-> Head(draws),
     rifl         |-> Rifl(1, w.command_count),
     shards       |-> gen_unique(w.shards_per_command, draws, {}).values]

\* Workload::gen_cmd, the shard generator returning draws[1], draws[2], ...:
\* the target shard is the first identifier generated
gen_cmd(w, draws) ==
    [target_shard |-> Head(draws),
     first_drawn  |-> Head(draws),
     rifl         |-> Rifl(1, w.command_count),
     shards       |-> gen_unique(w.shards_per_command, draws, {}).values]

\* Workload::next_cmd
NextCmd(draws) ==
    /\ workload.command_count < CommandsPerClient
    /\ gen_unique(workload.shards_per_command, draws, {}).ok
    /\ workload' = [workload EXCEPT !.command_count = @ + 1]
    /\ generated' = Append(generated, gen_cmd(workload', draws))

NextWorkload ==
    \E draws \in [1..MaxDraws -> ShardIds] : NextCmd(draws) /\ UNCHANGED notWlVars

WorkloadInit ==
    /\ workload = [shards_per_command |-> ShardsPerCommand, command_count |-> 0]
    /\ generated = <<>>

(***************************************************************************)
(* The process task with several protocol workers (run/task/process.rs,    *)
(* run/prelude.rs, run/pool.rs): process 1 of N, its peers being the       *)
(* environment                                                             *)
(***************************************************************************)
\* the number of protocol workers of the process (--workers)
Workers == 4
WorkerIds == 0..(Workers - 1)

\* commands submitted to the process, messages read from the peers
MaxWkCmds == 2
MaxPeerMsgs == 3

\* the reserved worker indexes
LEADER_WORKER_INDEX == 0
GC_WORKER_INDEX == 1
INDEXES_RESERVED == 2

\* the index of a message that is sent to all workers (None)
NoIndex == <<>>

worker_index_no_shift(i) == <<0, i>>
worker_index_shift(i) == <<INDEXES_RESERVED, i>>
worker_dot_index_shift(dot) == worker_index_shift(sequence(dot))

\* a message index that sends the acks of a dot to the worker after the
\* one of the dot
Message_index_ack_apart(msg) ==
    CASE msg.type \in {"MStore", "MCommit"} -> worker_dot_index_shift(msg.dot)
      [] msg.type = "MStoreAck" -> worker_index_shift(sequence(msg.dot) + 1)
      [] msg.type \in {"MCommitDot", "MGarbageCollection"} -> worker_index_no_shift(GC_WORKER_INDEX)
      [] msg.type = "MStable" -> NoIndex

\* MessageIndex for Message
Message_index(msg) ==
    CASE msg.type \in {"MStore", "MStoreAck", "MCommit"} -> worker_dot_index_shift(msg.dot)
      [] msg.type \in {"MCommitDot", "MGarbageCollection"} -> worker_index_no_shift(GC_WORKER_INDEX)
      [] msg.type = "MStable" -> NoIndex

\* PeriodicEventIndex for PeriodicEvent (GarbageCollection is the only event)
PeriodicEvent_index == worker_index_no_shift(GC_WORKER_INDEX)

\* the worker of an index (reserved, index): index modulo the workers that
\* are not reserved, shifted past the reserved ones
do_index(reserved, i, pool_size) == reserved + (i % (pool_size - reserved))

\* the workers a pool forwards to: the one of the index, all without index
pool_targets(ix) == IF ix = NoIndex THEN WorkerIds ELSE {do_index(ix[1], ix[2], Workers)}

\* ToPool::only_to_self
only_to_self(msg, worker_index) ==
    /\ Message_index(msg) # NoIndex
    /\ pool_targets(Message_index(msg)) = {worker_index}

\* ToPool::forward on the reader-to-workers pool
forward(rtw, m) ==
    [w \in WorkerIds |-> IF w \in pool_targets(Message_index(m.msg)) THEN Append(rtw[w], m) ELSE rtw[w]]

\* one more occurrence of x in the counted history h
Inc(h, x) == Put(h, x, IF x \in DOMAIN h THEN h[x] + 1 ELSE 1)

\* Basic::handle_submit (dot = Some(dot): the client task drew the dot)
handle_submit_dot(s, dot, cmd) ==
    [s EXCEPT !.to_processes = Append(@, ToSend(fast_quorum(s.process_id), MStore(dot, cmd)))]

\* a handle_message_from_self that always handles the message in-line
handle_message_from_self_inline(c, worker_index, msg, kord) ==
    [c EXCEPT !.s = handle(@, c.s.process_id, msg, kord),
              !.h_self = Inc(@, [msg |-> msg, sender |-> worker_index, inline |-> TRUE]),
              !.h_handled = Inc(@, [worker |-> worker_index, from |-> c.s.process_id, msg |-> msg])]

\* handle_message_from_self; c holds the protocol of the worker (s), the
\* channels (rtw), the messages for the writers (out) and the histories
handle_message_from_self(c, worker_index, msg, kord) ==
    IF only_to_self(msg, worker_index)
    THEN [c EXCEPT !.s = handle(@, c.s.process_id, msg, kord),
                   !.h_self = Inc(@, [msg |-> msg, sender |-> worker_index, inline |-> TRUE]),
                   !.h_handled = Inc(@, [worker |-> worker_index, from |-> c.s.process_id, msg |-> msg])]
    ELSE [c EXCEPT !.rtw = forward(@, [from |-> c.s.process_id, msg |-> msg]),
                   !.h_self = Inc(@, [msg |-> msg, sender |-> worker_index, inline |-> FALSE])]

\* send_to_processes_and_executors, the loop over Protocol::to_processes
RECURSIVE send_to_processes_and_executors(_, _, _)
send_to_processes_and_executors(c, worker_index, kord) ==
    IF c.s.panicked \/ c.s.to_processes = <<>>
    THEN c
    ELSE LET a  == c.s.to_processes[Len(c.s.to_processes)]
             c0 == [c EXCEPT !.s.to_processes = SubSeq(@, 1, Len(@) - 1)]
             p  == c.s.process_id
         IN  IF a.kind = "ToSend"
             THEN LET c1 == IF p \in a.target
                            THEN handle_message_from_self(c0, worker_index, a.msg, kord)
                            ELSE c0
                  IN  send_to_processes_and_executors(
                          [c1 EXCEPT !.out = @ \cup {[to |-> q, msg |-> a.msg] : q \in a.target \ {p}}],
                          worker_index, kord)
             ELSE send_to_processes_and_executors(
                      handle_message_from_self(c0, worker_index, a.msg, kord), worker_index, kord)

\* the state after worker w ran the rest of its loop body on its protocol
\* s, the channels being rtw and the history of handled messages hh
WorkerStep(w, s, rtw, hh, kord) ==
    LET r == send_to_processes_and_executors(
                 [s |-> s, rtw |-> rtw, out |-> wk_io.writers, h_self |-> h_self, h_handled |-> hh],
                 w, kord)
    IN  /\ workers' = [workers EXCEPT ![w] = [r.s EXCEPT !.to_executors = <<>>]]
        /\ reader_to_workers' = r.rtw
        /\ wk_io' = [writers |-> r.out,
                     executors |-> wk_io.executors \o to_executors_iter(r.s.to_executors)]
        /\ h_self' = r.h_self
        /\ h_handled' = r.h_handled

\* the submit the client task forwards with the dot it drew from the dot
\* generator, to the worker of the dot
SubmitEvent(dot) == [type |-> "Submit", dot |-> dot]

\* handle_from_clients, in the worker the client-to-workers pool chose
WorkerSubmit(w) ==
    LET dot == Dot(1, wk_gen.dots + 1)
        cmd == [rifl |-> Rifl(1, wk_gen.dots + 1), keys |-> {"K1"}]
    IN  /\ wk_gen.dots < MaxWkCmds
        /\ w \in pool_targets(worker_dot_index_shift(dot))
        /\ ~workers[w].panicked
        /\ wk_gen' = [wk_gen EXCEPT !.dots = @ + 1]
        /\ \E kord \in Perms(Keys) :
               WorkerStep(w, handle_submit_dot(workers[w], dot, cmd), reader_to_workers,
                          Inc(h_handled, [worker |-> w, from |-> 0, msg |-> SubmitEvent(dot)]), kord)

\* what a peer may send to the process
PeerMessages(from) ==
    {MStoreAck(Dot(1, i)) : i \in 1..wk_gen.dots}
        \cup {MCommit(Dot(from, 1), [rifl |-> Rifl(from, 1), keys |-> {"K1"}])}
        \cup {MGarbageCollection([p \in Procs |-> IF p = 1 THEN k ELSE 0]) : k \in 1..MaxWkCmds}

\* reader_task: a message of a peer is read and forwarded to the workers
ReaderForward(from, msg) ==
    /\ wk_gen.read < MaxPeerMsgs
    /\ wk_gen' = [wk_gen EXCEPT !.read = @ + 1]
    /\ reader_to_workers' = forward(reader_to_workers, [from |-> from, msg |-> msg])
    /\ UNCHANGED <<workers, wk_io, h_self, h_handled>>

\* handle_from_processes: worker w takes the next message of its channel
WorkerHandle(w) ==
    /\ reader_to_workers[w] # <<>>
    /\ ~workers[w].panicked
    /\ LET m == Head(reader_to_workers[w])
       IN  \E kord \in Perms(Keys) :
               WorkerStep(w, handle(workers[w], m.from, m.msg, kord),
                          [reader_to_workers EXCEPT ![w] = Tail(@)],
                          Inc(h_handled, [worker |-> w, from |-> m.from, msg |-> m.msg]), kord)
    /\ UNCHANGED wk_gen

\* handle_from_periodic_task: the GarbageCollection event, in the worker the
\* periodic-to-workers pool chose
WorkerPeriodic(w) ==
    /\ w \in pool_targets(PeriodicEvent_index)
    /\ ~workers[w].panicked
    /\ \E kord \in Perms(Keys) :
           WorkerStep(w, handle_event_garbage_collection(workers[w]), reader_to_workers, h_handled, kord)
    /\ UNCHANGED wk_gen

NextWorkers ==
    \/ \E w \in WorkerIds : WorkerSubmit(w) /\ UNCHANGED notWkVars
    \/ \E from \in all_but_me(1) : \E msg \in PeerMessages(from) :
           ReaderForward(from, msg) /\ UNCHANGED notWkVars
    \/ \E w \in WorkerIds : WorkerHandle(w) /\ UNCHANGED notWkVars
    \/ \E w \in WorkerIds : WorkerPeriodic(w) /\ UNCHANGED notWkVars

WorkersInit ==
    /\ workers = [w \in WorkerIds |-> Basic_new(1)]
    /\ reader_to_workers = [w \in WorkerIds |-> <<>>]
    /\ wk_gen = [dots |-> 0, read |-> 0]
    /\ wk_io = [writers |-> {}, executors |-> <<>>]
    /\ h_self = EmptyMap
    /\ h_handled = EmptyMap

(***************************************************************************)
(* The graph executor of a process of shard 1 with its two executor tasks  *)
(* (run/task/executor.rs): the main executor (index 0) handles the commits,*)
(* the auxiliary executor (index 1) the requests of the other shards. The  *)
(* two DependencyGraph clones share the vertex index and the snapshot of   *)
(* the executed clock.                                                     *)
(***************************************************************************)
\* the shards that send requests, the number of requests they send and
\* the dots they ask for (the dots of process 2)
AuxShards == {2, 3}
MaxRequests == 2
RequestDots == {d \in GDots : source(d) = 2}

\* the shards that replicate a command: the commands of process 2 span
\* shards 1 and 2, the others are on shard 1 only
CommandShards(cmd) == IF cmd.rifl[1] = 2 THEN {1, 2} ELSE {1}

\* Command::replicated_by
replicated_by(cmd, shard) == shard \in CommandShards(cmd)

Info(dot, cmd, clk) == [kind |-> "Info", dot |-> dot, cmd |-> cmd, clock |-> clk]
Executed(dot) == [kind |-> "Executed", dot |-> dot]

\* the clone of the DependencyGraph the auxiliary executor runs on (the
\* fields it does not share with the main executor)
AuxGraph_new ==
    [executor_index       |-> 1,
     executed_clock       |-> bottom_aeclock,
     pending_index        |-> EmptyMap,
     buffered_in_requests |-> [sh \in AuxShards |-> {}],
     out_request_replies  |-> {},
     h_requests           |-> {},    \* (shard, dot) requested so far
     h_discarded          |-> {}]    \* (shard, dot) neither answered nor buffered again

\* DependencyGraph::handle_request
handle_request(a, from, req_dots) ==
    [a EXCEPT !.buffered_in_requests[from] = @ \cup req_dots,
              !.h_requests = @ \cup {<<from, d>> : d \in req_dots}]

\* a process_requests that forgets the request for a dot it does not have
process_requests_forget(a, vertex_index, snapshot, from, req_dots) ==
    [a EXCEPT !.out_request_replies = @
        \cup {[to |-> from, reply |-> Info(d, vertex_index[d].cmd, vertex_index[d].clock)] :
                d \in {x \in req_dots \cap DOMAIN vertex_index : ~replicated_by(vertex_index[x].cmd, from)}}
        \cup {[to |-> from, reply |-> Executed(d)] : d \in (req_dots \ DOMAIN vertex_index) \cap snapshot},
              !.h_discarded = @ \cup {<<from, d>> :
                d \in {x \in req_dots \cap DOMAIN vertex_index : replicated_by(vertex_index[x].cmd, from)}}]

\* DependencyGraph::process_requests, for the requests of shard from
RECURSIVE process_requests(_, _, _, _, _)
process_requests(a, vertex_index, snapshot, from, req_dots) ==
    IF req_dots = {} THEN a
    ELSE LET dot == CHOOSE d \in req_dots : TRUE
             a1  == IF dot \in DOMAIN vertex_index
                    THEN IF replicated_by(vertex_index[dot].cmd, from)
                         THEN [a EXCEPT !.h_discarded = @ \cup {<<from, dot>>}]
                         ELSE [a EXCEPT !.out_request_replies = @ \cup
                                  {[to |-> from,
                                    reply |-> Info(dot, vertex_index[dot].cmd, vertex_index[dot].clock)]}]
                    ELSE IF dot \in snapshot
                         THEN [a EXCEPT !.out_request_replies = @ \cup
                                  {[to |-> from, reply |-> Executed(dot)]}]
                         ELSE [a EXCEPT !.buffered_in_requests[from] = @ \cup {dot}]
         IN  process_requests(a1, vertex_index, snapshot, from, req_dots \ {dot})

\* the loop of check_pending_requests over the shards with buffered requests
RECURSIVE check_pending_requests_loop(_, _, _, _, _)
check_pending_requests_loop(a, vertex_index, snapshot, buffered, shards) ==
    IF shards = {} THEN a
    ELSE LET from == CHOOSE sh \in shards : TRUE
         IN  check_pending_requests_loop(
                 process_requests(a, vertex_index, snapshot, from, buffered[from]),
                 vertex_index, snapshot, buffered, shards \ {from})

\* DependencyGraph::check_pending_requests
check_pending_requests(a, vertex_index, snapshot) ==
    check_pending_requests_loop(
        [a EXCEPT !.buffered_in_requests = [sh \in AuxShards |-> {}]],
        vertex_index, snapshot, a.buffered_in_requests, AuxShards)

\* LevelExecutedClock::maybe_level: the executed clock it may leave (the
\* clock given, or the clock with the last dot of the last process added)
LevelChoices(executed_clock) ==
    {executed_clock, executed_clock \cup {Dot(GN, MaxSeq)}}

\* a cleanup in which every executor writes its executed clock to the snapshot
cleanup_all_write(c, executor_index, levelled) ==
    IF executor_index = 0
    THEN [c EXCEPT !.main.executed_clock = levelled, !.snapshot = levelled]
    ELSE [c EXCEPT !.aux = check_pending_requests(c.aux, c.main.vertex_index, c.snapshot),
                   !.snapshot = c.aux.executed_clock]

\* DependencyGraph::cleanup, in the executor with the index given; c holds
\* the graphs of the two executors and the shared snapshot
cleanup(c, executor_index, levelled) ==
    IF executor_index = 0
    THEN [c EXCEPT !.main.executed_clock = levelled, !.snapshot = levelled]
    ELSE [c EXCEPT !.aux = check_pending_requests(c.aux, c.main.vertex_index, c.snapshot)]

\* the main executor handles a commit (here the clock of a commit holds the
\* dot itself and a dot of every other process)
MainAdd(dot, clk) ==
    /\ clk[source(dot)] = sequence(dot)
    /\ \A p \in GProcs : clk[p] >= 1
    /\ HandleAdd(dot, clk)
    /\ UNCHANGED <<executed_clock_snapshot, aux, aux_sent>>

\* the auxiliary executor handles the request of another shard
AuxHandleRequest(from, req_dots) ==
    /\ Cardinality(aux.h_requests) < MaxRequests
    /\ req_dots # {}
    /\ \A d \in req_dots : <<from, d>> \notin aux.h_requests
    /\ aux' = handle_request(aux, from, req_dots)
    /\ UNCHANGED <<executed_clock_snapshot, aux_sent, graphVars>>

\* the cleanup tick of an executor task: cleanup, then the request replies
\* are fetched and handed to the writers of their shard
CleanupTick(executor_index) ==
    /\ ~graph.panicked
    /\ \E levelled \in LevelChoices(graph.executed_clock) :
        /\ executor_index > 0 => levelled = graph.executed_clock
        /\ LET c == cleanup([main |-> graph, aux |-> aux, snapshot |-> executed_clock_snapshot],
                            executor_index, levelled)
           IN  /\ graph' = c.main
               /\ executed_clock_snapshot' = c.snapshot
               /\ aux' = [c.aux EXCEPT !.out_request_replies = {}]
               /\ aux_sent' = aux_sent \cup c.aux.out_request_replies
    /\ UNCHANGED <<commits, handed>>

NextAux ==
    \/ \E dot \in GDots : \E clk \in ClocksOf(dot) :
           MainAdd(dot, clk) /\ UNCHANGED notExecutorsVars
    \/ \E from \in AuxShards : \E dot \in RequestDots :
           AuxHandleRequest(from, {dot}) /\ UNCHANGED notExecutorsVars
    \/ \E i \in {0, 1} : CleanupTick(i) /\ UNCHANGED notExecutorsVars

AuxInit ==
    /\ executed_clock_snapshot = bottom_aeclock
    /\ aux = AuxGraph_new
    /\ aux_sent = {}

(***************************************************************************)
(* Key clocks shared by the workers of one process                         *)
(* (fantoch_ps/src/protocol/common/shared.rs and                           *)
(*  fantoch_ps/src/protocol/common/table/clocks/keys/atomic.rs)            *)
(***************************************************************************)
KcThreads == 2      \* worker threads that hold a clone of the AtomicKeyClocks
MaxCalls == 3       \* calls of the key clocks made by the threads
StackLimit == 2     \* frames of Shared::get that fit on the stack of a thread
MaxArg == 2         \* largest min_clock and up_to passed by a caller

KcThreadIds == 1..KcThreads
KcId == 1           \* AtomicKeyClocks.id, the same in every clone

NoKey == "none"
NoUpdate == 0 - 1   \* the closure of fetch_update returned None

\* Shared::new: an empty DashMap
Shared_new == EmptyMap

KcThread_new ==
    [pc |-> "idle", op |-> "none", key |-> NoKey, todo |-> {}, arg |-> 0,
     depth |-> 0, prev |-> 0, calls |-> 0]

\* the number of calls the threads of S made so far
RECURSIVE KcCalls(_)
KcCalls(S) ==
    IF S = {} THEN 0
    ELSE LET t == CHOOSE x \in S : TRUE IN kc_threads[t].calls + KcCalls(S \ {t})

\* a stack overflow aborts the process
Aborted == \E t \in KcThreadIds : kc_threads[t].pc = "overflow"

\* Shared::maybe_insert: the body is commented out, nothing is inserted
maybe_insert(clocks, key) == clocks

\* the closure that bump passes to fetch_update
bump_update(value, min_clock) == Max(min_clock, value + 1)

\* the closure that maybe_bump passes to fetch_update
maybe_bump_update(value, up_to) == IF value < up_to THEN up_to ELSE NoUpdate

\* compare_exchange_weak inside fetch_update: the store happens only when the
\* value is still the one the closure was applied to
compare_exchange_blind(current, expected) == TRUE
compare_exchange(current, expected) == current = expected

\* VoteRange::new(by, start, end); h_thread and h_op record the caller
VoteRange(by, start, end) == [by |-> by, start |-> start, end |-> end]

\* the thread is done with one key: the iteration over the keys goes on
after_key(th) ==
    IF th.todo = {}
    THEN {[th EXCEPT !.pc = "idle", !.op = "none", !.key = NoKey, !.arg = 0,
                     !.depth = 0, !.prev = 0]}
    ELSE {[th EXCEPT !.pc = IF th.op = "vote_all" THEN "guard" ELSE "get",
                     !.key = k, !.todo = @ \ {k}, !.depth = 0, !.prev = 0] :
              k \in th.todo}

\* a thread calls init_clocks(cmd), bump_and_vote(cmd, min_clock),
\* vote(cmd, up_to) or vote_all(up_to); vote_all iterates the entries of the
\* map, the others look each key of the command up with Shared::get
KeyClocksCall(t, op, cmd, arg) ==
    /\ ~Aborted
    /\ kc_threads[t].pc = "idle"
    /\ KcCalls(KcThreadIds) < MaxCalls
    /\ LET ks == IF op = "vote_all" THEN DOMAIN shared_clocks ELSE cmd
           th == [kc_threads[t] EXCEPT !.op = op, !.todo = ks, !.calls = @ + 1,
                                       !.arg = IF op = "init_clocks" THEN 0 ELSE arg]
       IN  \E nxt \in after_key(th) : kc_threads' = [kc_threads EXCEPT ![t] = nxt]
    /\ UNCHANGED <<shared_clocks, kc_votes>>

\* Shared::get, the look-up: Some(value) => value, None => maybe_insert
Shared_get(t) ==
    /\ ~Aborted
    /\ kc_threads[t].pc = "get"
    /\ kc_threads' = [kc_threads EXCEPT ![t].pc =
           IF kc_threads[t].key \in DOMAIN shared_clocks THEN "guard" ELSE "maybe_insert"]
    /\ UNCHANGED <<shared_clocks, kc_votes>>

\* Shared::get, the None arm: maybe_insert(key), then return self.get(key) in a
\* new frame
Shared_get_retry(t) ==
    /\ ~Aborted
    /\ kc_threads[t].pc = "maybe_insert"
    /\ shared_clocks' = maybe_insert(shared_clocks, kc_threads[t].key)
    /\ kc_threads' = [kc_threads EXCEPT
           ![t].depth = @ + 1,
           ![t].pc = IF kc_threads[t].depth + 1 > StackLimit THEN "overflow" ELSE "get"]
    /\ UNCHANGED kc_votes

\* the thread holds the guard of the clock of its key: init_clocks drops it,
\* bump and maybe_bump start fetch_update with a load
FetchUpdateLoad(t) ==
    /\ ~Aborted
    /\ kc_threads[t].pc = "guard"
    /\ IF kc_threads[t].op = "init_clocks"
       THEN \E nxt \in after_key(kc_threads[t]) : kc_threads' = [kc_threads EXCEPT ![t] = nxt]
       ELSE kc_threads' = [kc_threads EXCEPT ![t].pc = "cas",
                                             ![t].prev = shared_clocks[kc_threads[t].key]]
    /\ UNCHANGED <<shared_clocks, kc_votes>>

\* fetch_update applies the closure to the loaded value and tries to store
\* the result; bump_and_vote and maybe_bump build the vote range from the
\* previous value that fetch_update returns
FetchUpdateCas(t) ==
    /\ ~Aborted
    /\ kc_threads[t].pc = "cas"
    /\ LET th == kc_threads[t]
           new == IF th.op = "bump_and_vote" THEN bump_update(th.prev, th.arg)
                  ELSE maybe_bump_update(th.prev, th.arg)
           end == IF th.op = "bump_and_vote" THEN Max(th.arg, th.prev + 1) ELSE th.arg
       IN  IF new = NoUpdate
           THEN /\ \E nxt \in after_key(th) : kc_threads' = [kc_threads EXCEPT ![t] = nxt]
                /\ UNCHANGED <<shared_clocks, kc_votes>>
           ELSE IF compare_exchange(shared_clocks[th.key], th.prev)
           THEN /\ shared_clocks' = [shared_clocks EXCEPT ![th.key] = new]
                /\ kc_votes' = Inc(kc_votes,
                       [key |-> th.key, vr |-> VoteRange(KcId, th.prev + 1, end),
                        h_thread |-> t, h_op |-> th.op])
                /\ \E nxt \in after_key(th) : kc_threads' = [kc_threads EXCEPT ![t] = nxt]
           ELSE /\ kc_threads' = [kc_threads EXCEPT ![t].prev = shared_clocks[th.key]]
                /\ UNCHANGED <<shared_clocks, kc_votes>>

\* the commands: on one key, and on all keys
KcCmds == {{"K1"}, Keys}

\* the key clocks as the code creates them (AtomicKeyClocks::new)
NextShared ==
    \/ \E t \in KcThreadIds : \E op \in {"init_clocks", "bump_and_vote", "vote", "vote_all"} :
       \E cmd \in KcCmds : \E arg \in 1..MaxArg :
           KeyClocksCall(t, op, cmd, arg) /\ UNCHANGED notKcVars
    \/ \E t \in KcThreadIds : Shared_get(t) /\ UNCHANGED notKcVars
    \/ \E t \in KcThreadIds : Shared_get_retry(t) /\ UNCHANGED notKcVars

\* the operations on the clocks of keys that have an entry
NextKeyClocks ==
    \/ \E t \in KcThreadIds : \E op \in {"bump_and_vote", "vote", "vote_all"} :
       \E cmd \in KcCmds : \E arg \in 1..MaxArg :
           KeyClocksCall(t, op, cmd, arg) /\ UNCHANGED notKcVars
    \/ \E t \in KcThreadIds : Shared_get(t) /\ UNCHANGED notKcVars
    \/ \E t \in KcThreadIds : FetchUpdateLoad(t) /\ UNCHANGED notKcVars
    \/ \E t \in KcThreadIds : FetchUpdateCas(t) /\ UNCHANGED notKcVars

KcInit ==
    /\ shared_clocks = Shared_new
    /\ kc_threads = [t \in KcThreadIds |-> KcThread_new]
    /\ kc_votes = EmptyMap

\* every key already has an entry that holds AtomicU64::default()
KcInitEntries ==
    /\ shared_clocks = [k \in Keys |-> 0]
    /\ kc_threads = [t \in KcThreadIds |-> KcThread_new]
    /\ kc_votes = EmptyMap

(***************************************************************************)
(* Workload::new and the keys of a command (fantoch/src/client/workload.rs *)
(* and key_gen.rs)                                                         *)
(***************************************************************************)
MaxKeysPerShard == 3    \* largest keys_per_shard passed to Workload::new
MaxKeyCount == 3        \* largest key count of the Zipf distribution
MaxKeyDraws == 4        \* calls of gen_cmd_key explored for one gen_unique

CONFLICT_COLOR == "CONFLICT"
KgClient == "1"         \* ClientId::to_string of the client that generates

\* KeyGen::ConflictRate { conflict_rate } and KeyGen::Zipf { .. } with the
\* key count keys_per_shard * shard_count of KeyGenState::new
ConflictRate(conflict_rate) == [kind |-> "ConflictRate", conflict_rate |-> conflict_rate, key_count |-> 0]
Zipf(key_count) == [kind |-> "Zipf", conflict_rate |-> 0, key_count |-> key_count]

KeyGens == {ConflictRate(r) : r \in {0, 50, 100}} \cup {Zipf(n) : n \in 1..MaxKeyCount}

\* true_if_random_is_less_than: the values it can return
true_if_random_is_less_than(percentage) ==
    IF percentage = 0 THEN {FALSE}
    ELSE IF percentage = 100 THEN {TRUE}
    ELSE BOOLEAN

\* KeyGenState::gen_cmd_key: the keys a call can return (gen_conflict_rate,
\* gen_zipf: a sample of the distribution over 1..key_count)
gen_cmd_key(key_gen) ==
    IF key_gen.kind = "ConflictRate"
    THEN {IF should_conflict THEN CONFLICT_COLOR ELSE KgClient :
              should_conflict \in true_if_random_is_less_than(key_gen.conflict_rate)}
    ELSE {ToString(i) : i \in 1..key_gen.key_count}

\* the checks of Workload::new: TRUE when new panics
Workload_new_panics(keys_per_shard, key_gen) ==
    /\ key_gen.kind = "ConflictRate"
    /\ \/ (key_gen.conflict_rate = 100 /\ keys_per_shard > 1)
       \/ keys_per_shard > 2

Kgen_none == [pc |-> "none", keys_per_shard |-> 0, key_gen |-> ConflictRate(0),
              values |-> {}, draws |-> 0]

\* Workload::new(.., keys_per_shard, key_gen, ..), followed by the first
\* gen_cmd of the workload when new returned
WorkloadNew(keys_per_shard, key_gen) ==
    /\ kgen.pc = "none"
    /\ kgen' = [kgen EXCEPT !.pc = IF Workload_new_panics(keys_per_shard, key_gen)
                                   THEN "panicked" ELSE "gen_unique",
                            !.keys_per_shard = keys_per_shard,
                            !.key_gen = key_gen]

\* gen_unique, one turn of the loop: values.insert(gen())
GenUniqueInsert(key) ==
    /\ kgen.pc = "gen_unique"
    /\ Cardinality(kgen.values) # kgen.keys_per_shard
    /\ kgen.draws < MaxKeyDraws
    /\ key \in gen_cmd_key(kgen.key_gen)
    /\ kgen' = [kgen EXCEPT !.values = @ \cup {key}, !.draws = @ + 1]

\* gen_unique, the exit of the loop: values.len() == count
GenUniqueReturn ==
    /\ kgen.pc = "gen_unique"
    /\ Cardinality(kgen.values) = kgen.keys_per_shard
    /\ kgen' = [kgen EXCEPT !.pc = "returned"]

\* another workload is created
WorkloadDrop ==
    /\ kgen.pc \in {"returned", "panicked"}
    /\ kgen' = Kgen_none

AllKeys == {CONFLICT_COLOR, KgClient} \cup {ToString(i) : i \in 1..MaxKeyCount}

NextKeyGen ==
    \/ \E keys_per_shard \in 0..MaxKeysPerShard : \E key_gen \in KeyGens :
           WorkloadNew(keys_per_shard, key_gen) /\ UNCHANGED notKgVars
    \/ \E key \in AllKeys : GenUniqueInsert(key) /\ UNCHANGED notKgVars
    \/ GenUniqueReturn /\ UNCHANGED notKgVars
    \/ WorkloadDrop /\ UNCHANGED notKgVars

KgInit == kgen = Kgen_none

(***************************************************************************)
(* The ToSend arm of send_to_processes_and_executors and the writers       *)
(* (fantoch/src/run/task/process.rs): one process of a single shard of     *)
(* SendN processes, connected to every peer by Multiplexing connections    *)
(***************************************************************************)
SendN == 3          \* Config::n of the shard
Multiplexing == 2   \* connections (and writer tasks) per peer
MaxSends == 3       \* ToSend actions popped by the worker

SndSelf == 1
SndProcs == 1..SendN
\* connect_to_all with one shard: the n - 1 peers
SndPeers == SndProcs \ {SndSelf}

\* start_writers: one channel per connection, Multiplexing per peer
to_writers_new == [q \in SndPeers |-> [i \in 0..(Multiplexing - 1) |-> <<>>]]

\* a send_to_one_writer that sends through every writer of the peer
send_to_all_writers(writers, writer_index, msg) ==
    [i \in DOMAIN writers |-> Append(writers[i], msg)]

\* send_to_one_writer: the message goes to the writer picked at random
send_to_one_writer(writers, writer_index, msg) ==
    [writers EXCEPT ![writer_index] = Append(@, msg)]

\* Action::ToSend { target, msg }, msg being the next message of the
\* protocol: handled locally when the process is in target, then sent to one
\* writer of each peer of to_writers that is in target (pick: the random
\* writer indexes)
SendToSend(target, pick) ==
    /\ Len(snd_log) < MaxSends
    /\ LET msg == Len(snd_log) + 1
       IN  /\ snd_log' = Append(snd_log, target)
           /\ snd_self' = Append(snd_self, IF SndSelf \in target THEN 1 ELSE 0)
           /\ to_writers' = [q \in DOMAIN to_writers |->
                  IF q \in target
                  THEN send_to_one_writer(to_writers[q], pick[q], msg)
                  ELSE to_writers[q]]
    /\ UNCHANGED snd_received

\* writer_task: the next message of the channel is written to the connection
WriterTask(q, i) ==
    /\ to_writers[q][i] # <<>>
    /\ to_writers' = [to_writers EXCEPT ![q][i] = Tail(@)]
    /\ snd_received' = Inc(snd_received, <<q, Head(to_writers[q][i])>>)
    /\ UNCHANGED <<snd_log, snd_self>>

NextSend ==
    \/ \E target \in (SUBSET SndProcs) \ {{}} :
       \E pick \in [SndPeers -> 0..(Multiplexing - 1)] :
           SendToSend(target, pick) /\ UNCHANGED notSndVars
    \/ \E q \in SndPeers : \E i \in 0..(Multiplexing - 1) :
           WriterTask(q, i) /\ UNCHANGED notSndVars

SndInit ==
    /\ to_writers = to_writers_new
    /\ snd_log = <<>>
    /\ snd_self = <<>>
    /\ snd_received = EmptyMap

(***************************************************************************)
(* Clients and the executor tasks of a process (fantoch/src/run/mod.rs,    *)
(* points 1-3 and 6-7, and fantoch/src/run/task/executor.rs); the protocol *)
(* is reduced to: a command forwarded to the workers is committed later    *)
(***************************************************************************)
RegClients == {1, 2}    \* client tasks connected to the process
RegExecutors == {0, 1}  \* executor tasks of the process (--executors 2)
MaxRegCmds == 2         \* commands issued by one client

\* the executor responsible for the (single) key of the commands of client c
reg_executor(c) == c % 2

\* ClientToExecutor::Register(client_ids, executor_results_tx)
Register(c) == [type |-> "Register", client |-> c]

\* ToClients::register: the clients are added to the index
ToClients_register(index, c) == index \cup {c}

\* ToClients::to_client: Some(sender) exactly for a registered client
to_client(index, c) == c \in index

\* point 1: a client that connects registers itself in all executors (the
\* Register is put in the channel of every executor)
ClientRegister(c) ==
    /\ reg_client[c].pc = "connected"
    /\ reg_client' = [reg_client EXCEPT ![c].pc = "registering"]
    /\ client_to_executors' = [e \in RegExecutors |-> Append(client_to_executors[e], Register(c))]
    /\ UNCHANGED <<workers_to_executors, reg_cmds, to_clients, reg_results>>

\* point 3: the client issues a command, which is forwarded to a protocol
\* worker; the executors send no acknowledgement of a Register
\* (handle_from_client), so there is none to wait for
ClientSubmit(c) ==
    /\ reg_client[c].pc = "registering"
    /\ reg_client[c].issued < MaxRegCmds
    /\ reg_client' = [reg_client EXCEPT ![c].issued = @ + 1]
    /\ reg_cmds' = reg_cmds \cup {Rifl(c, reg_client[c].issued + 1)}
    /\ UNCHANGED <<client_to_executors, workers_to_executors, to_clients, reg_results>>

\* point 6: a worker commits the command and forwards its execution info to
\* the responsible executor
WorkerCommit(rifl) ==
    /\ rifl \in reg_cmds
    /\ reg_cmds' = reg_cmds \ {rifl}
    /\ workers_to_executors' =
           [workers_to_executors EXCEPT ![reg_executor(rifl[1])] = Append(@, rifl)]
    /\ UNCHANGED <<reg_client, client_to_executors, to_clients, reg_results>>

\* fetch_new_command_results for the result of rifl: sent to the client when
\* to_client finds it, skipped otherwise
fetch_new_command_results(index, rifl, res) ==
    IF to_client(index, rifl[1])
    THEN [res EXCEPT !.sent = @ \cup {rifl}]
    ELSE [res EXCEPT !.dropped = @ \cup {rifl}]

\* executor_task, the arm of select! on from_workers: handle the execution
\* info, then fetch_new_command_results
ExecutorFromWorkers(e) ==
    /\ workers_to_executors[e] # <<>>
    /\ workers_to_executors' = [workers_to_executors EXCEPT ![e] = Tail(@)]
    /\ reg_results' = fetch_new_command_results(to_clients[e], Head(workers_to_executors[e]), reg_results)
    /\ UNCHANGED <<reg_client, client_to_executors, reg_cmds, to_clients>>

\* executor_task, the arm of select! on from_clients: handle_from_client
ExecutorFromClients(e) ==
    /\ client_to_executors[e] # <<>>
    /\ client_to_executors' = [client_to_executors EXCEPT ![e] = Tail(@)]
    /\ to_clients' = [to_clients EXCEPT ![e] = ToClients_register(@, Head(client_to_executors[e]).client)]
    /\ UNCHANGED <<reg_client, workers_to_executors, reg_cmds, reg_results>>

NextRegister ==
    \/ \E c \in RegClients : ClientRegister(c) /\ UNCHANGED notRegVars
    \/ \E c \in RegClients : ClientSubmit(c) /\ UNCHANGED notRegVars
    \/ \E c \in RegClients : \E i \in 1..MaxRegCmds :
           WorkerCommit(Rifl(c, i)) /\ UNCHANGED notRegVars
    \/ \E e \in RegExecutors : ExecutorFromWorkers(e) /\ UNCHANGED notRegVars
    \/ \E e \in RegExecutors : ExecutorFromClients(e) /\ UNCHANGED notRegVars

RegInit ==
    /\ reg_client = [c \in RegClients |-> [pc |-> "connected", issued |-> 0]]
    /\ client_to_executors = [e \in RegExecutors |-> <<>>]
    /\ workers_to_executors = [e \in RegExecutors |-> <<>>]
    /\ reg_cmds = {}
    /\ to_clients = [e \in RegExecutors |-> {}]
    /\ reg_results = [sent |-> {}, dropped |-> {}]

(***************************************************************************)
(* The Newt protocol (src/protocol/newt.rs), all commands on one key.      *)
(* KeysClocks, QuorumClocks, Votes, Commands, BaseProcess and              *)
(* Config::newt_quorum_sizes are not part of the sources at hand; they are *)
(* modelled from the way newt.rs uses and describes them.                  *)
(***************************************************************************)
NewtN == 5              \* Config::n
NewtF == 2              \* Config::f
MaxNewtCmds == 2        \* commands submitted, one per coordinator
MaxNewtDups == 1        \* re-deliveries (SpecNewtDup)
MaxNewtHandled == 12    \* messages handled in a run

NewtProcs == 1..NewtN
\* the processes the clients submit to
NewtCoordinators == {1, NewtN}

\* Config::newt_quorum_sizes: the size of the fast quorum
newt_fast_quorum_size == (NewtN \div 2) + NewtF

\* BaseProcess::fast_quorum: the process and the processes closest to it
newt_fast_quorum(p) == {((p - 1 + i) % NewtN) + 1 : i \in 0..(newt_fast_quorum_size - 1)}

\* BaseProcess::all
newt_all == NewtProcs

\* Option<Command>::None, a noOp
NoOp == Rifl(0, 0)

START == "START"
COLLECT == "COLLECT"
COMMIT == "COMMIT"
StatusRank(status) == CASE status = START -> 0 [] status = COLLECT -> 1 [] status = COMMIT -> 2

\* QuorumClocks::new(fast_quorum_size)
QuorumClocks_new == [participants |-> {}, max_clock |-> 0, max_count |-> 0]

\* QuorumClocks::add(from, clock): the highest clock reported so far and the
\* number of times it was reported
QuorumClocks_add(qc, from, clk) ==
    [participants |-> qc.participants \cup {from},
     max_clock    |-> Max(qc.max_clock, clk),
     max_count    |-> IF clk > qc.max_clock THEN 1
                      ELSE IF clk = qc.max_clock THEN qc.max_count + 1
                      ELSE qc.max_count]

\* QuorumClocks::all: every member of the fast quorum has reported
QuorumClocks_all(qc) == Cardinality(qc.participants) = newt_fast_quorum_size

\* CommandInfo::new
CommandInfo_new ==
    [status |-> START, quorum |-> {}, cmd |-> NoOp, clock |-> 0, votes |-> {},
     quorum_clocks |-> QuorumClocks_new]

\* Commands::get: the info of dot, created when absent
newt_cmds_get(cmds, dot) ==
    IF dot \in DOMAIN cmds THEN cmds ELSE Put(cmds, dot, CommandInfo_new)

\* KeysClocks::process_votes(cmd, clock) on the clock of the key: the votes
\* from the current clock up to clock, when there are any
process_votes(p, keys_clock, clk) ==
    IF keys_clock < clk THEN {VoteRange(p, keys_clock + 1, clk)} ELSE {}

Newt_new(p) ==
    [process_id  |-> p,
     dot_gen     |-> 0,
     keys_clocks |-> 0,
     cmds        |-> EmptyMap,
     to_executor |-> <<>>,
     panicked    |-> FALSE,
     handled     |-> 0,          \* messages handled so far
     h_reported  |-> EmptyMap,   \* dot -> the (from, clock) of the MCollectAcks counted
     h_mcommit   |-> EmptyMap,   \* dot -> the clocks of the MCommits emitted
     h_slow      |-> {},         \* dots for which the slow path was taken
     h_status    |-> EmptyMap,   \* dot -> the statuses the dot went through
     h_ignored   |-> {}]         \* the types of the messages discarded because of the status

NMCollect(dot, cmd, quorum, clk) ==
    [type |-> "MCollect", dot |-> dot, cmd |-> cmd, quorum |-> quorum, clock |-> clk, votes |-> {}]
NMCollectAck(dot, clk, votes) ==
    [type |-> "MCollectAck", dot |-> dot, cmd |-> NoOp, quorum |-> {}, clock |-> clk, votes |-> votes]
NMCommit(dot, cmd, clk, votes) ==
    [type |-> "MCommit", dot |-> dot, cmd |-> cmd, quorum |-> {}, clock |-> clk, votes |-> votes]
NMPhantom(dot, votes) ==
    [type |-> "MPhantom", dot |-> dot, cmd |-> NoOp, quorum |-> {}, clock |-> 0, votes |-> votes]

\* the result of a handler: the new struct and the ToSend returned, if any
NoSend == [target |-> {}, msg |-> None]
NToSend(target, msg) == [target |-> target, msg |-> msg]
Handled(s, send) == [s |-> s, send |-> send]

\* the status of dot is recorded in the history
WithStatus(s, dot) ==
    [s EXCEPT !.h_status = Put(@, dot, (IF dot \in DOMAIN @ THEN @[dot] ELSE <<START>>)
                                        \o <<s.cmds[dot].status>>)]

\* Newt::handle_submit
newt_handle_submit(s, cmd) ==
    LET dot == Dot(s.process_id, s.dot_gen + 1)
    IN  Handled([s EXCEPT !.dot_gen = @ + 1],
                NToSend(newt_fast_quorum(s.process_id),
                        NMCollect(dot, cmd, newt_fast_quorum(s.process_id), s.keys_clocks + 1)))

\* Newt::handle_mcollect
handle_mcollect(s, from, dot, cmd, quorum, remote_clock) ==
    LET cmds == newt_cmds_get(s.cmds, dot)
        clk  == Max(remote_clock, s.keys_clocks + 1)
        pv   == process_votes(s.process_id, s.keys_clocks, clk)
        s1   == [s EXCEPT !.keys_clocks = Max(@, clk),
                          !.cmds = [cmds EXCEPT ![dot].status = COLLECT,
                                                ![dot].cmd = cmd,
                                                ![dot].quorum = quorum,
                                                ![dot].clock = clk]]
    IN  IF cmds[dot].status # START
        THEN Handled([s EXCEPT !.cmds = cmds, !.h_ignored = @ \cup {"MCollect"}], NoSend)
        ELSE Handled(WithStatus(s1, dot), NToSend({from}, NMCollectAck(dot, clk, pv)))

\* a fast path condition that ignores how often the highest clock was reported
fast_path_always(max_count) == TRUE

\* the fast path condition of handle_mcollectack
fast_path(max_count) == max_count >= NewtF

\* Newt::handle_mcollectack
handle_mcollectack(s, from, dot, clk, remote_votes) ==
    LET cmds == newt_cmds_get(s.cmds, dot)
        info == cmds[dot]
        qc   == QuorumClocks_add(info.quorum_clocks, from, clk)
        lv   == process_votes(s.process_id, s.keys_clocks, qc.max_clock)
        s1   == [s EXCEPT !.keys_clocks = Max(@, qc.max_clock),
                          !.cmds = [cmds EXCEPT ![dot].votes = @ \cup remote_votes \cup lv,
                                                ![dot].quorum_clocks = qc],
                          !.h_reported = Put(@, dot, (IF dot \in DOMAIN @ THEN @[dot] ELSE {})
                                                     \cup {<<from, clk>>})]
    IN  IF info.status # COLLECT
        THEN Handled([s EXCEPT !.cmds = cmds, !.h_ignored = @ \cup {"MCollectAck"}], NoSend)
        ELSE IF info.cmd = NoOp
        THEN Handled([s1 EXCEPT !.panicked = TRUE], NoSend)   \* "there should be a command payload"
        ELSE IF QuorumClocks_all(qc)
        THEN IF fast_path(qc.max_count)
             THEN Handled([s1 EXCEPT !.cmds[dot].votes = {},
                                     !.h_mcommit = Put(@, dot, (IF dot \in DOMAIN @ THEN @[dot] ELSE <<>>)
                                                               \o <<qc.max_clock>>)],
                          NToSend(newt_all, NMCommit(dot, info.cmd, qc.max_clock, s1.cmds[dot].votes)))
             ELSE Handled([s1 EXCEPT !.panicked = TRUE, !.h_slow = @ \cup {dot}], NoSend)
                                                              \* todo!("slow path not implemented yet")
        ELSE Handled(s1, NoSend)

\* a handle_mcommit that does not look at the status
handle_mcommit_always(s, dot, cmd, clk, votes) ==
    LET cmds == newt_cmds_get(s.cmds, dot)
        pv   == IF cmd # NoOp THEN process_votes(s.process_id, s.keys_clocks, clk) ELSE {}
        s1   == [s EXCEPT !.keys_clocks = IF cmd # NoOp THEN Max(@, clk) ELSE @,
                          !.cmds = [cmds EXCEPT ![dot].status = COMMIT,
                                                ![dot].cmd = cmd,
                                                ![dot].clock = clk,
                                                ![dot].votes = {}],
                          !.to_executor = IF cmd # NoOp
                                          THEN Append(@, [kind |-> "votes", dot |-> dot, cmd |-> cmd,
                                                          clock |-> clk,
                                                          votes |-> votes \cup cmds[dot].votes])
                                          ELSE @]
    IN  Handled(WithStatus(s1, dot),
                IF pv # {} THEN NToSend(newt_all, NMPhantom(dot, pv)) ELSE NoSend)

\* Newt::handle_mcommit
newt_handle_mcommit(s, dot, cmd, clk, votes) ==
    LET cmds == newt_cmds_get(s.cmds, dot)
        pv   == IF cmd # NoOp THEN process_votes(s.process_id, s.keys_clocks, clk) ELSE {}
        s1   == [s EXCEPT !.keys_clocks = IF cmd # NoOp THEN Max(@, clk) ELSE @,
                          !.cmds = [cmds EXCEPT ![dot].status = COMMIT,
                                                ![dot].cmd = cmd,
                                                ![dot].clock = clk,
                                                ![dot].votes = {}],
                          !.to_executor = IF cmd # NoOp
                                          THEN Append(@, [kind |-> "votes", dot |-> dot, cmd |-> cmd,
                                                          clock |-> clk,
                                                          votes |-> votes \cup cmds[dot].votes])
                                          ELSE @]
    IN  IF cmds[dot].status = COMMIT
        THEN Handled([s EXCEPT !.cmds = cmds, !.h_ignored = @ \cup {"MCommit"}], NoSend)
        ELSE Handled(WithStatus(s1, dot),
                     IF pv # {} THEN NToSend(newt_all, NMPhantom(dot, pv)) ELSE NoSend)

\* Newt::handle_mphantom
handle_mphantom(s, dot, pv) ==
    LET cmds == newt_cmds_get(s.cmds, dot)
    IN  IF cmds[dot].status = COMMIT
        THEN Handled([s EXCEPT !.cmds = cmds,
                               !.to_executor = Append(@, [kind |-> "phantom_votes", dot |-> dot,
                                                          cmd |-> NoOp, clock |-> 0, votes |-> pv])],
                     NoSend)
        ELSE Handled([s EXCEPT !.cmds = [cmds EXCEPT ![dot].votes = @ \cup pv]], NoSend)

\* Newt::handle (Process::handle)
newt_handle(s, from, msg) ==
    CASE msg.type = "MCollect"    -> handle_mcollect(s, from, msg.dot, msg.cmd, msg.quorum, msg.clock)
      [] msg.type = "MCollectAck" -> handle_mcollectack(s, from, msg.dot, msg.clock, msg.votes)
      [] msg.type = "MCommit"     -> newt_handle_mcommit(s, msg.dot, msg.cmd, msg.clock, msg.votes)
      [] msg.type = "MPhantom"    -> handle_mphantom(s, msg.dot, msg.votes)

\* the messages of a ToSend, one per target
NewtSent(from, send) == {[from |-> from, to |-> q, msg |-> send.msg] : q \in send.target}

\* the number of commands submitted so far
RECURSIVE NewtSubmitted(_)
NewtSubmitted(S) ==
    IF S = {} THEN 0
    ELSE LET p == CHOOSE x \in S : TRUE IN newt[p].dot_gen + NewtSubmitted(S \ {p})

\* the number of messages handled so far
RECURSIVE NewtHandled(_)
NewtHandled(S) ==
    IF S = {} THEN 0
    ELSE LET p == CHOOSE x \in S : TRUE IN newt[p].handled + NewtHandled(S \ {p})

\* a client submits a command to coordinator p (Process::submit)
NewtSubmit(p) ==
    /\ ~newt[p].panicked
    /\ newt[p].dot_gen = 0
    /\ NewtSubmitted(NewtProcs) < MaxNewtCmds
    /\ LET r == newt_handle_submit(newt[p], Rifl(p, 1))
       IN  /\ newt' = [newt EXCEPT ![p] = r.s]
           /\ newt_msgs' = newt_msgs \cup NewtSent(p, r.send)
    /\ UNCHANGED newt_dups

\* a message reaches its target (Simulation::forward_to_processes calls
\* Process::handle of the target), keep: the message is delivered once more
\* later
NewtDeliver(m, keep) ==
    /\ m \in newt_msgs
    /\ ~newt[m.to].panicked
    /\ NewtHandled(NewtProcs) < MaxNewtHandled
    /\ keep => newt_dups < MaxNewtDups
    /\ LET r == newt_handle(newt[m.to], m.from, m.msg)
       IN  /\ newt' = [newt EXCEPT ![m.to] = [r.s EXCEPT !.handled = @ + 1]]
           /\ newt_msgs' = ((IF keep THEN newt_msgs ELSE newt_msgs \ {m})
                            \cup NewtSent(m.to, r.send))
    /\ newt_dups' = IF keep THEN newt_dups + 1 ELSE newt_dups

NewtReceive(m) == NewtDeliver(m, FALSE)
NewtReceiveDuplicated(m) == NewtDeliver(m, TRUE)

NextNewt ==
    \/ \E p \in NewtCoordinators : NewtSubmit(p) /\ UNCHANGED notNewtVars
    \/ \E m \in newt_msgs : NewtReceive(m) /\ UNCHANGED notNewtVars

\* one coordinator, messages may be delivered again
NextNewtDup ==
    \/ NewtSubmit(1) /\ UNCHANGED notNewtVars
    \/ \E m \in newt_msgs : NewtReceive(m) /\ UNCHANGED notNewtVars
    \/ \E m \in newt_msgs : NewtReceiveDuplicated(m) /\ UNCHANGED notNewtVars

NewtInit ==
    /\ newt = [p \in NewtProcs |-> Newt_new(p)]
    /\ newt_msgs = {}
    /\ newt_dups = 0

\* the parts whose initial state is the same in every specification
InitOthers ==
    /\ BasicInit /\ GctInit /\ GraphInit /\ GenInit /\ WorkloadInit /\ WorkersInit /\ AuxInit
    /\ KgInit /\ SndInit /\ RegInit /\ NewtInit

Init == InitOthers /\ KcInit

\* Basic with or without a GC interval configured, in a window in which the
\* GC event does not fire
Next ==
    \/ \E c \in Clients : Submit(c, ConflictKeys(c), MaxCmds) /\ UNCHANGED notBasicVars
    \/ \E m \in msgs : Receive(m) /\ UNCHANGED notBasicVars
    \/ \E m \in msgs : ReceiveDuplicated(m) /\ UNCHANGED notBasicVars
    \/ \E p \in Procs : ExecutorHandle(p) /\ UNCHANGED notBasicVars

Spec == Init /\ [][Next]_vars

\* Basic with a GC interval configured and the GC event firing
InitBasicGC == Init /\ gc_running

NextBasicGC ==
    \/ \E c \in Clients : Submit(c, ConflictKeys(c), MaxCmdsGC) /\ UNCHANGED notBasicVars
    \/ \E m \in msgs : Receive(m) /\ UNCHANGED notBasicVars
    \/ \E m \in msgs : ReceiveDuplicated(m) /\ UNCHANGED notBasicVars
    \/ \E p \in Procs : PeriodicGarbageCollection(p) /\ UNCHANGED notBasicVars
    \/ \E p \in Procs : ExecutorHandle(p) /\ UNCHANGED notBasicVars

SpecBasicGC == InitBasicGC /\ [][NextBasicGC]_vars

\* Basic with or without a GC interval configured; the GC event fires when
\* an interval is configured
SpecBasicAny == Init /\ [][NextBasicGC]_vars

\* Basic with a peer that acknowledges dots it was not asked to store
NextStray ==
    \/ \E c \in Clients : Submit(c, ConflictKeys(c), MaxCmds) /\ UNCHANGED notBasicVars
    \/ \E m \in msgs : Receive(m) /\ UNCHANGED notBasicVars
    \/ \E p, from \in Procs : \E i \in 1..MaxCmds :
           ReceiveStrayAck(p, from, Dot(p, i)) /\ UNCHANGED notBasicVars
    \/ \E p \in Procs : ExecutorHandle(p) /\ UNCHANGED notBasicVars

SpecStray == Init /\ [][NextStray]_vars

\* Basic with a GC interval configured, all the processes alive: the
\* protocol workers and the periodic task (the executor tasks, which the
\* workers only write to, are left to run afterwards)
NextBasicGCLive ==
    \/ \E c \in Clients : Submit(c, ConflictKeys(c), MaxCmdsGC) /\ UNCHANGED notBasicVars
    \/ \E m \in msgs : Receive(m) /\ UNCHANGED notBasicVars
    \/ \E p \in Procs : GarbageCollectionTick(p) /\ UNCHANGED notBasicVars

\* a worker handles a message of the commit protocol (MStore, MStoreAck,
\* MCommit) that is in flight
ReceiveProtocol ==
    \E m \in msgs : m.msg.type # "MGarbageCollection" /\ Receive(m)

\* a worker of process q handles the MGarbageCollection of process p
ReceiveGarbageCollection(p, q) ==
    \E m \in msgs :
        m.from = p /\ m.to = q /\ m.msg.type = "MGarbageCollection" /\ Receive(m)

\* the states in which ReceiveProtocol, ReceiveGarbageCollection(p, q) and
\* GarbageCollectionTick(p) can take a step (each of these steps changes
\* msgs): their guards
ReceiveProtocolEnabled ==
    \E m \in msgs : m.msg.type # "MGarbageCollection" /\ ~basic[m.to].panicked

ReceiveGarbageCollectionEnabled(p, q) ==
    /\ ~basic[q].panicked
    /\ \E m \in msgs : m.from = p /\ m.to = q /\ m.msg.type = "MGarbageCollection"

GarbageCollectionTickEnabled(p) ==
    /\ gc_running
    /\ ~basic[p].panicked
    /\ \A m \in msgs : ~(m.from = p /\ m.msg.type = "MGarbageCollection")

\* weak fairness of ReceiveProtocol, of every ReceiveGarbageCollection(p, q)
\* and of every GarbageCollectionTick(p): a message in flight is eventually
\* read from its connection and handled (a command puts finitely many
\* protocol messages in flight), and the interval timer of every process
\* keeps firing. WF_vars(A) is []<>(~ENABLED <<A>>_vars \/ <<A>>_vars); it
\* is written with the guard of A for ENABLED <<A>>_vars, and as steps that
\* change the state, which is the same here because in every state some
\* timer or some MGarbageCollection delivery is enabled (NeverIdle)
Fairness ==
    /\ []<><<~ReceiveProtocolEnabled
               \/ (ReceiveProtocol /\ UNCHANGED notBasicVars)>>_vars
    /\ \A p, q \in Procs :
           []<><<~ReceiveGarbageCollectionEnabled(p, q)
                  \/ (ReceiveGarbageCollection(p, q) /\ UNCHANGED notBasicVars)>>_vars
    /\ \A p \in Procs :
           []<><<~GarbageCollectionTickEnabled(p)
                  \/ (GarbageCollectionTick(p) /\ UNCHANGED notBasicVars)>>_vars

SpecBasicGCLive == InitBasicGC /\ [][NextBasicGCLive]_vars /\ Fairness

\* no worker has panicked, and the timer of every process either can fire or
\* has a broadcast in flight that can be delivered
NeverIdle ==
    \A p \in Procs :
        /\ ~basic[p].panicked
        /\ \/ GarbageCollectionTickEnabled(p)
           \/ \E q \in Procs : ReceiveGarbageCollectionEnabled(p, q)

(***************************************************************************)
(* GCTrack on its own, as driven by tests::gc_flow: the tracker of process *)
(* 1 of a shard of 2; dots are recorded, clocks of the other process       *)
(* arrive in any order (also stale ones), stable() is called at any time   *)
(***************************************************************************)
\* gc.add_to_clock(dot)
GctAddToClock(dot) ==
    /\ gct' = add_to_clock(gct, dot)
    /\ UNCHANGED gct_out

\* gc.update_clock_of(from, clock)
GctUpdateClockOf(from, c) ==
    /\ gct' = update_clock_of(gct, from, c)
    /\ UNCHANGED gct_out

\* gc.stable(): the ranges returned are recorded when there are any
GctStable ==
    LET r == stable(gct)
    IN  /\ gct' = r.g
        /\ gct_out' = IF r.dots = {} THEN gct_out ELSE Append(gct_out, r.dots)

NextGC ==
    \/ \E p \in process_ids(GcN) : \E i \in 1..MaxEvent :
           GctAddToClock(Dot(p, i)) /\ UNCHANGED notGctVars
    \/ \E from \in process_ids(GcN) \ {gct.process_id} :
           \E c \in [process_ids(GcN) -> 0..MaxEvent] :
               GctUpdateClockOf(from, c) /\ UNCHANGED notGctVars
    \/ GctStable /\ UNCHANGED notGctVars

SpecGC == Init /\ [][NextGC]_vars

\* gc.update_clock(clock): the caller hands over its whole clock, which may
\* be behind the one handed over before
GctUpdateClock(events) ==
    /\ gct' = update_clock(gct, events)
    /\ UNCHANGED gct_out

\* GCTrack driven through all of its operations
NextGCClock ==
    \/ \E p \in process_ids(GcN) : \E i \in 1..MaxEvent :
           GctAddToClock(Dot(p, i)) /\ UNCHANGED notGctVars
    \/ \E events \in SUBSET {Dot(p, i) : p \in process_ids(GcN), i \in 1..MaxEvent} :
           GctUpdateClock(events) /\ UNCHANGED notGctVars
    \/ \E from \in process_ids(GcN) \ {gct.process_id} :
           \E c \in [process_ids(GcN) -> 0..MaxEvent] :
               GctUpdateClockOf(from, c) /\ UNCHANGED notGctVars
    \/ GctStable /\ UNCHANGED notGctVars

SpecGCClock == Init /\ [][NextGCClock]_vars

InitGraph == Init /\ ~gc_running

SpecGraph == InitGraph /\ [][NextGraph]_vars

SpecDotGen == InitGraph /\ [][NextDotGen]_vars

SpecWorkload == InitGraph /\ [][NextWorkload]_vars

\* the main and the auxiliary graph executor of one process
SpecAux == InitGraph /\ [][NextAux]_vars

\* one process with several protocol workers, GC interval configured
SpecWorkers == InitBasicGC /\ [][NextWorkers]_vars

\* the key clocks of a process, its worker threads being scheduled fairly
SpecShared == InitGraph /\ [][NextShared]_vars /\ WF_vars(NextShared)

\* the key clocks when every key has an entry
InitKeyClocks == InitOthers /\ ~gc_running /\ KcInitEntries

SpecKeyClocks == InitKeyClocks /\ [][NextKeyClocks]_vars

\* workloads created by Workload::new and the generation of their keys
SpecKeyGen == InitGraph /\ [][NextKeyGen]_vars

\* the ToSend actions of one process task and its writers
SpecSend == InitGraph /\ [][NextSend]_vars

\* clients that register at the executors and submit commands
SpecRegister == InitGraph /\ [][NextRegister]_vars

\* Newt, every message handled once
SpecNewt == InitGraph /\ [][NextNewt]_vars

\* Newt, with messages that are delivered again
SpecNewtDup == InitGraph /\ [][NextNewtDup]_vars

\* C18 as stated: the target shard of every generated command is the lowest
\* of the shards the command touches.
C18_TargetIsLowestShard ==
    \A i \in 1..Len(generated) :
        \A sh \in generated[i].shards : generated[i].target_shard <= sh

\* C18 (amended): the target shard of every generated command is the first
\* shard identifier the shard generator returned for it, and it is one of
\* the shards_per_command shards the command touches.
C18_TargetIsFirstGenerated ==
    \A i \in 1..Len(generated) :
        /\ generated[i].target_shard = generated[i].first_drawn
        /\ generated[i].target_shard \in generated[i].shards
        /\ Cardinality(generated[i].shards) = workload.shards_per_command

\* a command on two shards whose target shard is not the lowest of them
C18_Witness ==
    \E i \in 1..Len(generated) : \E sh \in generated[i].shards :
        sh < generated[i].target_shard

\* the dots that client tasks hold or have forwarded
HeldDots == {client_task[t].dot : t \in {u \in ClientTasks : client_task[u].pc = "forward"}}

\* C12: the k-th dot the generator of a process assigns is (process, k),
\* from 1 and without gap, so the dots are pairwise distinct, however the
\* client tasks interleave: no two tasks hold the same dot and no dot is
\* forwarded to the worker twice.
C12_DotsInSequence ==
    /\ \A k \in 1..Len(assigned) : assigned[k] = Dot(GenProcess, k)
    /\ \A t, u \in ClientTasks :
           (t # u /\ client_task[t].pc = "forward" /\ client_task[u].pc = "forward")
               => client_task[t].dot # client_task[u].dot
    /\ \A i, j \in 1..Len(from_clients) : from_clients[i] = from_clients[j] => i = j
    /\ HeldDots \cap Range(from_clients) = {}
    /\ HeldDots \cup Range(from_clients) = Range(assigned)

\* three dots were assigned to concurrent tasks, which forwarded them in
\* another order than the one of the assignment
C12_Witness ==
    /\ Len(assigned) >= 3
    /\ Len(from_clients) >= 2
    /\ from_clients[1] = Dot(GenProcess, 2)
    /\ from_clients[2] = Dot(GenProcess, 1)

\* C9: every dot of a range returned by GCTrack::stable is in the own
\* committed clock of the node (my_clock): it was recorded locally before it
\* was reported stable.
C9_StableImpliesCommitted ==
    \A i \in 1..Len(gct_out) : dots(gct_out[i]) \subseteq gct.my_clock

\* stable() has returned a range of more than one dot
C9_Witness ==
    \E i \in 1..Len(gct_out) : \E r \in gct_out[i] : r[2] < r[3]

\* the end of the last range of process p among the first n results of
\* stable() (0 when there is none): the stable frontier of p after them
RECURSIVE StableFrontierAfter(_, _)
StableFrontierAfter(p, n) ==
    IF n = 0 THEN 0
    ELSE IF \E r \in gct_out[n] : r[1] = p
    THEN (CHOOSE r \in gct_out[n] : r[1] = p)[3]
    ELSE StableFrontierAfter(p, n - 1)

\* C24: no step lowers an entry of previous_stable: not a stable() called
\* after clocks of the peer arrived in any order, and not a stable() called
\* when the stable clock it computes is below previous_stable.
C24_PreviousStableNeverDecreases ==
    [][\A p \in process_ids(GcN) : gct'.previous_stable[p] >= gct.previous_stable[p]]_vars

\* stable() has recorded a stable clock, and the stable clock that the next
\* call computes is lower in an entry
C24_Witness ==
    /\ gct_out # <<>>
    /\ \E p \in process_ids(GcN) :
           /\ gct.previous_stable[p] >= 1
           /\ stable_clock(gct)[p] < gct.previous_stable[p]
           /\ stable(gct).g.previous_stable[p] = gct.previous_stable[p]

\* the GCTrack after the clocks of the sequence cs, all reported by process
\* from, were handled one after the other
RECURSIVE ReportAll(_, _, _)
ReportAll(g, from, cs) ==
    IF cs = <<>> THEN g ELSE ReportAll(update_clock_of(g, from, Head(cs)), from, Tail(cs))

\* the clocks a process may report
ReportedClocks == [process_ids(GcN) -> 0..MaxEvent]

\* the clock recorded for process from, bottom when it has reported nothing
RecordedOf(g, from) ==
    IF from \in DOMAIN g.all_but_me THEN g.all_but_me[from] ELSE bottom_vclock(g.n)

\* recorded being the clock recorded for from before: the clocks a and b
\* reported in the two orders, and with a reported twice, leave the same
\* record, the join of recorded, a and b
SameRecord(g, from, recorded, a, b) ==
    /\ RecordedOf(ReportAll(g, from, <<a, b>>), from) = join(recorded, join(a, b))
    /\ RecordedOf(ReportAll(g, from, <<b, a>>), from) = join(recorded, join(a, b))
    /\ RecordedOf(ReportAll(g, from, <<a, b, a>>), from) = join(recorded, join(a, b))
    /\ RecordedOf(ReportAll(g, from, <<a, a, b, b>>), from) = join(recorded, join(a, b))
    /\ \A p \in process_ids(GcN) :
           /\ RecordedOf(update_clock_of(g, from, a), from)[p] >= recorded[p]
           /\ RecordedOf(update_clock_of(g, from, a), from)[p] >= a[p]

\* C25: the clock recorded for a peer is the join of the clocks the peer
\* reported: handling one more clock never lowers an entry, and two clocks
\* handled in either order, or with repetitions, leave the same record.
C25_RecordedIsJoin ==
    \A from \in process_ids(GcN) \ {gct.process_id} : \A a, b \in ReportedClocks :
        SameRecord(gct, from, RecordedOf(gct, from), a, b)

\* the peer has reported clocks whose join is the record: an entry of the
\* record is above 0 and a clock that is not below the record can arrive
C25_Witness ==
    \E from \in DOMAIN gct.all_but_me : \E a \in ReportedClocks :
        /\ \E p \in process_ids(GcN) : gct.all_but_me[from][p] >= 1 /\ a[p] < gct.all_but_me[from][p]
        /\ \E p \in process_ids(GcN) : a[p] > gct.all_but_me[from][p]
        /\ update_clock_of(gct, from, a).all_but_me[from] = join(gct.all_but_me[from], a)

\* C14: every dot is reported stable at most once: the ranges returned by
\* the successive calls of stable() are pairwise disjoint, every range of a
\* process starts one past the stable frontier the previous calls left and
\* ends at the new one (which previous_stable then holds), and calling
\* stable() twice in a row returns nothing the second time.
C14_EachDotStableOnce ==
    /\ \A i, j \in 1..Len(gct_out) :
           i < j => dots(gct_out[i]) \cap dots(gct_out[j]) = {}
    /\ \A i \in 1..Len(gct_out) : \A r, q \in gct_out[i] :
           /\ r[1] = q[1] => r = q
           /\ r[2] = StableFrontierAfter(r[1], i - 1) + 1
           /\ r[2] <= r[3]
    /\ \A p \in process_ids(GcN) :
           gct.previous_stable[p] = StableFrontierAfter(p, Len(gct_out))
    /\ stable(stable(gct).g).dots = {}

\* two calls of stable() have each returned a range of the same process
C14_Witness ==
    \E i, j \in 1..Len(gct_out) : \E r \in gct_out[i] : \E q \in gct_out[j] :
        i < j /\ r[1] = q[1]

(***************************************************************************)
(* Properties of Basic                                                     *)
(***************************************************************************)
\* the dots a run can generate
AllDots == {Dot(p, i) : p \in Procs, i \in 1..MaxCmds}

\* the senders of the MStoreAcks for dot d that process p has handled
AcksOf(p, d) == IF d \in DOMAIN basic[p].h_acks THEN basic[p].h_acks[d] ELSE {}

\* the number of MCommit actions for dot d that process p has emitted
MCommitsOf(p, d) == IF d \in DOMAIN basic[p].h_mcommits THEN basic[p].h_mcommits[d] ELSE 0

\* the Rifls executed on key k at process p, in execution order
ExecutedOn(p, k) == IF k \in DOMAIN executor[p].monitor THEN executor[p].monitor[k] ELSE <<>>

\* C1: the coordinator of a dot has emitted an MCommit for it exactly when it
\* has handled MStoreAcks from basic_quorum_size distinct processes: none
\* while fewer were handled, and with N = 3, F = 1 the quorum is 2 acks (the
\* MCommit comes with the 2nd ack, not with the 1st).
C1_CommitOnQuorum ==
    /\ (N = 3 /\ F = 1) => basic_quorum_size = 2
    /\ \A p \in Procs : \A d \in AllDots :
           (MCommitsOf(p, d) >= 1) <=> (Cardinality(AcksOf(p, d)) >= basic_quorum_size)

\* a coordinator that emitted the MCommit, having handled exactly 2 acks
C1_Witness ==
    \E p \in Procs : \E d \in AllDots :
        MCommitsOf(p, d) >= 1 /\ Cardinality(AcksOf(p, d)) = 2

\* C2: for every dot the coordinator emits at most one MCommit over the
\* whole run (a duplicate or late MStoreAck triggers no second one).
C2_AtMostOneMCommit ==
    \A p \in Procs : \A d \in AllDots : MCommitsOf(p, d) <= 1

\* C3: at every replica every Rifl is executed at most once on each key,
\* also when the MCommit of its dot is delivered more than once.
C3_ExecutedAtMostOnce ==
    \A p \in Procs : \A k \in Keys : \A r \in Range(ExecutedOn(p, k)) :
        Count(ExecutedOn(p, k), r) <= 1

\* C4 as stated: any two commands executed on a common key by two replicas
\* are executed in the same relative order by both.
C4_SameOrderEverywhere ==
    \A p, q \in Procs : \A k \in Keys :
        \A a, b \in Range(ExecutedOn(p, k)) \cap Range(ExecutedOn(q, k)) :
            (First(ExecutedOn(p, k), a) < First(ExecutedOn(p, k), b))
                <=> (First(ExecutedOn(q, k), a) < First(ExecutedOn(q, k), b))

\* the Rifls of the commands on key k among the MCommits process p handled,
\* in the order in which it handled them
RECURSIVE CommittedOn(_, _)
CommittedOn(h, k) ==
    IF h = <<>> THEN <<>>
    ELSE IF k \in Head(h).cmd.keys THEN <<Head(h).cmd.rifl>> \o CommittedOn(Tail(h), k)
    ELSE CommittedOn(Tail(h), k)

\* C4 (amended): every replica executes the commands on a key in the order
\* in which it handled their MCommit messages: the executions on key k are
\* a prefix of the MCommits on k the replica handled. (Nothing orders the
\* MCommits of two coordinators, so two replicas may differ.)
C4_LocalCommitOrder ==
    \A p \in Procs : \A k \in Keys :
        /\ Len(ExecutedOn(p, k)) <= Len(CommittedOn(basic[p].h_commits, k))
        /\ ExecutedOn(p, k) = SubSeq(CommittedOn(basic[p].h_commits, k), 1, Len(ExecutedOn(p, k)))

\* two replicas that executed the commands of two coordinators on K1 in
\* opposite orders
C4_Witness ==
    \E p, q \in Procs :
        /\ ExecutedOn(p, "K1") = <<Rifl(1, 1), Rifl(2, 1)>>
        /\ ExecutedOn(q, "K1") = <<Rifl(2, 1), Rifl(1, 1)>>

\* C10: a dot removed from the table of a process by the garbage collection
\* (handle_mstable) has been committed by every process of the shard: the
\* committed frontier of every process covers it and every process has
\* handled its MCommit.
C10_GCOnlyWhenCommittedEverywhere ==
    \A p \in Procs : \A d \in basic[p].h_gc : \A q \in Procs :
        /\ sequence(d) <= clock(basic[q].gc_track)[source(d)]
        /\ \E i \in 1..Len(basic[q].h_commits) : basic[q].h_commits[i].dot = d

\* a process has garbage-collected a dot
C10_Witness ==
    \E p \in Procs : basic[p].h_gc # {} /\ basic[p].dot_to_info = EmptyMap

\* the commands an MCommit of dot may carry: one key or several
CommandsOf(dot) ==
    {[rifl |-> Rifl(source(dot), sequence(dot)), keys |-> ks] : ks \in (SUBSET Keys) \ {{}}}

\* t being the state handle_mcommit(s, _, dot, cmd, kord) returns: what the
\* call appended to to_executors, and the effects C26 states
ExecutionInfosPushed(s, t) ==
    SubSeq(t.to_executors, Len(s.to_executors) + 1, Len(t.to_executors))

MCommitEffects(s, t, dot, cmd) ==
    /\ Len(ExecutionInfosPushed(s, t)) = Cardinality(cmd.keys)
    /\ \A k \in cmd.keys : [rifl |-> cmd.rifl, key |-> k] \in Range(ExecutionInfosPushed(s, t))
    /\ gc_running =>
           /\ t.to_processes = Append(s.to_processes, ToForward(MCommitDot(dot)))
           /\ dot \in DOMAIN t.dot_to_info
           /\ t.dot_to_info[dot].cmd = cmd
    /\ ~gc_running =>
           /\ t.to_processes = s.to_processes
           /\ dot \notin DOMAIN t.dot_to_info

\* C26: handle_mcommit, in whatever state the replica is, pushes exactly one
\* execution info per key of the command (with the Rifl of the command);
\* with GC enabled it pushes one action, a ToForward of MCommitDot of the
\* dot, and the table keeps the info of the dot with the command; with GC
\* disabled it pushes no action and the table has no info of the dot.
C26_MCommitEffects ==
    \A p \in Procs : \A d \in AllDots : \A cmd \in CommandsOf(d) : \A kord \in Perms(Keys) :
        MCommitEffects(basic[p], handle_mcommit(basic[p], source(d), d, cmd, kord), d, cmd)

\* with GC enabled a replica has handled the MCommit of a dot it had stored
\* and keeps its command info; its executor got the execution info
C26_Witness ==
    /\ gc_running
    /\ \E p \in Procs : \E i \in 1..Len(basic[p].h_commits) :
           /\ basic[p].h_commits[i].dot \in DOMAIN basic[p].dot_to_info
           /\ basic[p].dot_to_info[basic[p].h_commits[i].dot].cmd = basic[p].h_commits[i].cmd
           /\ ExecutedOn(p, "K1") # <<>>

\* the stable counters of the processes of S, summed
RECURSIVE TotalStable(_)
TotalStable(S) ==
    IF S = {} THEN 0
    ELSE LET p == CHOOSE q \in S : TRUE IN basic[p].stable + TotalStable(S \ {p})

\* process q has handled the MCommit of dot d
CommittedAt(q, d) == \E i \in 1..Len(basic[q].h_commits) : basic[q].h_commits[i].dot = d

\* C11: with the GC event firing, all N processes alive and every message
\* delivered, from some point on every command submitted is committed at
\* every process, the stable counters of all the processes sum to (number
\* of commands submitted) * N and every command-info table is empty.
C11_EventuallyCommittedAndStable ==
    <>[](/\ \A p \in Procs : \A d \in DOMAIN basic[p].h_submits :
               \A q \in Procs : CommittedAt(q, d)
         /\ TotalStable(Procs) = NumSubmitted * N
         /\ \A p \in Procs : basic[p].dot_to_info = EmptyMap)

\* a command was submitted, it is counted stable at each of the N processes
\* and every table is empty again
C11_Witness ==
    /\ NumSubmitted = MaxCmdsGC
    /\ \A p \in Procs : basic[p].stable = NumSubmitted /\ basic[p].h_gc # {}
    /\ TotalStable(Procs) = NumSubmitted * N
    /\ \A p \in Procs : basic[p].dot_to_info = EmptyMap

\* C17: handle_submit pushes exactly one action: a ToSend of the MStore of
\* the newly assigned dot to the fast quorum of the coordinator, which holds
\* the coordinator (2 processes with N = 3, F = 1); and every MCommit the
\* coordinator emits is a ToSend to all N processes.
C17_SubmitAndCommitTargets ==
    \A p \in Procs :
        /\ \A d \in DOMAIN basic[p].h_submits :
               /\ Len(basic[p].h_submits[d]) = 1
               /\ basic[p].h_submits[d][1].kind = "ToSend"
               /\ basic[p].h_submits[d][1].msg.type = "MStore"
               /\ basic[p].h_submits[d][1].msg.dot = d
               /\ source(d) = p /\ sequence(d) \in 1..basic[p].dot_gen
               /\ basic[p].h_submits[d][1].target = fast_quorum(p)
               /\ p \in basic[p].h_submits[d][1].target
               /\ (N = 3 /\ F = 1) => Cardinality(basic[p].h_submits[d][1].target) = 2
        /\ \A d \in DOMAIN basic[p].h_targets : \A t \in basic[p].h_targets[d] :
               t = Procs /\ Cardinality(t) = N

\* a coordinator has submitted a command and later emitted its MCommit
C17_Witness ==
    \E p \in Procs : \E d \in DOMAIN basic[p].h_submits :
        d \in DOMAIN basic[p].h_targets /\ basic[p].h_targets[d] # {}

\* C19: an MStoreAck for a dot from a process outside the fast quorum of the
\* dot aborts the node that handles it and is not counted: the sender is not
\* in the set of acks of the dot.
C19_StrayAckAborts ==
    \A p \in Procs : \A d \in DOMAIN basic[p].h_acks :
        \A from \in basic[p].h_acks[d] \ fast_quorum(source(d)) :
            /\ basic[p].panicked
            /\ d \in DOMAIN basic[p].dot_to_info => from \notin basic[p].dot_to_info[d].acks

\* C13: while fewer than N - 1 peers have reported a committed clock to a
\* process, its stable clock is bottom and stable() returns no range,
\* whatever the process has committed locally.
C13_BottomUntilAllReported ==
    \A p \in Procs :
        Cardinality(DOMAIN basic[p].gc_track.all_but_me) < N - 1 =>
            /\ stable_clock(basic[p].gc_track) = bottom_vclock(N)
            /\ stable(basic[p].gc_track).dots = {}

\* a process that committed a dot locally and has the clock of one of its
\* two peers, which covers that dot
C13_Witness ==
    \E p \in Procs : \E q \in DOMAIN basic[p].gc_track.all_but_me :
        /\ Cardinality(DOMAIN basic[p].gc_track.all_but_me) = 1
        /\ \E o \in Procs : clock(basic[p].gc_track)[o] >= 1
                            /\ basic[p].gc_track.all_but_me[q][o] >= 1

(***************************************************************************)
(* Properties of the dependency graph executor                             *)
(***************************************************************************)
\* the dots emitted (pushed to to_execute) so far
Emitted == Range(graph.h_emitted)

\* the dots named by the entries of the clock of dot, dot itself aside (an
\* entry 0 names no dot)
FrontierDeps(dot) ==
    {Dot(p, commits[dot][p]) : p \in {q \in GProcs : commits[dot][q] > 0}} \ {dot}

\* all the dots the clock of dot covers, dot itself aside
RangeDeps(dot) == {d \in GDots : sequence(d) <= commits[dot][source(d)]} \ {dot}

\* every dot covered by the clock of a commit handed over is handed over
DependencyClosed == \A d \in DOMAIN commits : RangeDeps(d) \subseteq DOMAIN commits

\* the Rifls executed on key CONF, in the order of emission
ExecutedRifls(g) == [i \in 1..Len(g.h_emitted) |-> conflicting_command(g.h_emitted[i]).rifl]

\* the graph after the commits were handed over in ascending dot order
RECURSIVE AddAll(_, _)
AddAll(g, ds) ==
    IF ds = <<>> THEN g
    ELSE AddAll(handle_add(g, Head(ds), conflicting_command(Head(ds)), commits[Head(ds)],
                           [i \in 1..GN |-> i], SortDots(GDots)),
                Tail(ds))

\* C5: a dot is emitted only when every dot named by its clock has been
\* emitted before it or belongs to the same SCC, and a dot whose
\* dependencies have all been emitted has been emitted itself (a command
\* handed over before its dependencies is emitted once they are there).
C5_DependenciesFirst ==
    /\ \A d \in Emitted : \A dep \in FrontierDeps(d) :
           /\ dep \in Emitted
           /\ \/ First(graph.h_emitted, dep) < First(graph.h_emitted, d)
              \/ \E scc \in graph.h_sccs : {d, dep} \subseteq scc
    /\ \A d \in DOMAIN commits : RangeDeps(d) \subseteq Emitted => d \in Emitted

\* C6: for a dependency-closed set of commits the sequence of Rifls
\* executed on the key is the same for every order of handle_add: it is the
\* one the ascending order gives.
C6_SameOrderForEveryArrival ==
    DependencyClosed =>
        ExecutedRifls(graph) = ExecutedRifls(AddAll(DependencyGraph_new, SortDots(DOMAIN commits)))

\* C7: once handle_add was called for each commit of a dependency-closed
\* set, every command of the set has been emitted exactly once.
C7_AllEmittedOnce ==
    DependencyClosed => \A d \in DOMAIN commits : Count(graph.h_emitted, d) = 1

\* C8: the consumer obtains the commands of one SCC in ascending dot
\* order: for dots a < b of one SCC, b is not obtained before a.
C8_AscendingWithinSCC ==
    \A scc \in graph.h_sccs : \A a, b \in scc :
        (DotLess(a, b) /\ conflicting_command(b) \in Range(handed)) =>
            /\ conflicting_command(a) \in Range(handed)
            /\ First(handed, conflicting_command(a)) < First(handed, conflicting_command(b))

\* the dependencies of dot that have not been handed to the executor
MissingDeps(dot) == FrontierDeps(dot) \ DOMAIN commits

\* C15: after every operation of the executor, a command X that is still in
\* the vertex index and has a dependency Y that is missing (not handed
\* over yet) is in the set the pending index holds for Y.
C15_PendingIndexClosure ==
    \A X \in DOMAIN graph.vertex_index : \A Y \in MissingDeps(X) :
        Y \in DOMAIN graph.pending_index /\ X \in graph.pending_index[Y]

\* the dots that dot reaches by n dependency edges or fewer (n >= 1), among
\* the commits handed over
RECURSIVE ReachedFrom(_, _)
ReachedFrom(dot, n) ==
    IF n = 1 THEN RangeDeps(dot) \cap DOMAIN commits
    ELSE LET R == ReachedFrom(dot, n - 1)
         IN  R \cup UNION {RangeDeps(d) \cap DOMAIN commits : d \in R}

\* no commit handed over depends on itself, directly or not
Acyclic == \A d \in DOMAIN commits : d \notin ReachedFrom(d, Cardinality(GDots))

\* every dependency was handed over and the consumer took every command
Quiescent == DependencyClosed /\ graph.to_execute = <<>>

C20_ExecutedNeverMissing ==
    \A Y \in DOMAIN graph.pending_index :
        /\ Y \notin graph.executed_clock
        /\ ~(sequence(Y) >= 1 /\ sequence(Y) <= AEFrontier(graph.executed_clock, source(Y)))

\* C23: after every find_scc (every handle_add ends after the finalize of
\* its last find_scc), every vertex left in the vertex index has id = 0 and
\* on_stack = FALSE, and the stack and the id counter of the finder are
\* reset.
C23_FinderReset ==
    /\ graph.finder_id = 0
    /\ graph.finder_stack = <<>>
    /\ \A d \in DOMAIN graph.vertex_index :
           graph.vertex_index[d].id = 0 /\ ~graph.vertex_index[d].on_stack

\* C23 (amended): after every find_scc every vertex left in the vertex index
\* has id = 0 and the stack and the id counter of the finder are reset;
\* on_stack is left as the search set it.
C23_IdsReset ==
    /\ graph.finder_id = 0
    /\ graph.finder_stack = <<>>
    /\ \A d \in DOMAIN graph.vertex_index : graph.vertex_index[d].id = 0

\* a search stopped on a missing dependency: a vertex it had pushed is left
\* in the vertex index with id = 0 and on_stack = TRUE, the finder is reset;
\* another search has emitted commands
C23_Witness ==
    /\ \E d \in DOMAIN graph.vertex_index :
           graph.vertex_index[d].id = 0 /\ graph.vertex_index[d].on_stack
    /\ graph.h_emitted # <<>>
    /\ graph.finder_id = 0 /\ graph.finder_stack = <<>>

\* C22: with transitive_conflicts disabled (the executor gets the flag in
\* its Config; strong_connect does not read it), a command whose clock has
\* the entry p -> k is emitted only after every dot (p, s), 1 <= s <= k,
\* other than itself: each was emitted before it or with it in its SCC.
C22_AllCoveredDotsFirst ==
    \A d \in Emitted : \A dep \in RangeDeps(d) :
        /\ dep \in Emitted
        /\ \/ First(graph.h_emitted, dep) < First(graph.h_emitted, d)
           \/ \E scc \in graph.h_sccs : {d, dep} \subseteq scc

\* the dots whose command info worker w has created or changed
TouchedBy(w) ==
    (DOMAIN workers[w].dot_to_info) \cup workers[w].h_gc \cup (DOMAIN workers[w].h_acks)
        \cup {workers[w].h_commits[i].dot : i \in 1..Len(workers[w].h_commits)}

\* the messages and submits that mention a dot
MentionsDot(msg) == msg.type \in {"Submit", "MStore", "MStoreAck", "MCommit"}

\* how often worker w handled message msg of process from
HandledBy(w, from, msg) ==
    IF [worker |-> w, from |-> from, msg |-> msg] \in DOMAIN h_handled
    THEN h_handled[[worker |-> w, from |-> from, msg |-> msg]] ELSE 0

\* C27: the submit and the MStore, MStoreAck and MCommit of a dot are all
\* handled by one worker, so no two workers hold or change the command info
\* of the same dot; MCommitDot and MGarbageCollection are handled by the GC
\* worker only, and an MStable is handled by, or queued for, every worker.
C27_OneWorkerPerDot ==
    /\ \A e1, e2 \in DOMAIN h_handled :
           (MentionsDot(e1.msg) /\ MentionsDot(e2.msg) /\ e1.msg.dot = e2.msg.dot)
               => e1.worker = e2.worker
    /\ \A w1, w2 \in WorkerIds : w1 # w2 => TouchedBy(w1) \cap TouchedBy(w2) = {}
    /\ \A e \in DOMAIN h_handled :
           e.msg.type \in {"MCommitDot", "MGarbageCollection"} => e.worker = GC_WORKER_INDEX
    /\ \A e \in DOMAIN h_self : e.msg.type = "MStable" =>
           \A w \in WorkerIds :
               HandledBy(w, 1, e.msg) + Count(reader_to_workers[w], [from |-> 1, msg |-> e.msg]) >= 1

\* two workers each hold the info of a dot, a peer's ack of a dot was
\* handled, the GC worker handled an MCommitDot and every worker an MStable
C27_Witness ==
    /\ \E w1, w2 \in WorkerIds : w1 # w2 /\ TouchedBy(w1) # {} /\ TouchedBy(w2) # {}
    /\ \E e \in DOMAIN h_handled : e.msg.type = "MStoreAck" /\ e.from # 1
    /\ \E e \in DOMAIN h_handled : e.msg.type = "MCommitDot"
    /\ \E e \in DOMAIN h_self : e.msg.type = "MStable" /\ \A w \in WorkerIds : HandledBy(w, 1, e.msg) = 1

\* how often message msg was passed to handle_message_from_self
SentToSelf(msg) ==
    LET S == {e \in DOMAIN h_self : e.msg = msg}
        RECURSIVE Sum(_)
        Sum(T) == IF T = {} THEN 0 ELSE LET e == CHOOSE x \in T : TRUE IN h_self[e] + Sum(T \ {e})
    IN  Sum(S)

\* C28: a message of a worker to its own process is handled in-line exactly
\* when the worker of its index is the sending worker, and otherwise put on
\* the reader-to-workers channel; each worker it is routed to has handled it,
\* or has it queued, once per time it was sent, and no other worker has.
C28_SelfMessageOnce ==
    /\ \A e \in DOMAIN h_self : e.inline <=> pool_targets(Message_index(e.msg)) = {e.sender}
    /\ \A e \in DOMAIN h_self : \A w \in WorkerIds :
           HandledBy(w, 1, e.msg) + Count(reader_to_workers[w], [from |-> 1, msg |-> e.msg])
               = IF w \in pool_targets(Message_index(e.msg)) THEN SentToSelf(e.msg) ELSE 0

\* a message to self was handled in-line, and another one went through the
\* channel and was handled by the worker it was routed to
C28_Witness ==
    /\ \E e \in DOMAIN h_self : e.inline /\ HandledBy(e.sender, 1, e.msg) = 1
    /\ \E e \in DOMAIN h_self : \E w \in WorkerIds :
           ~e.inline /\ w # e.sender /\ HandledBy(w, 1, e.msg) = 1

\* request (from, d) has been answered: a reply for d was handed to the
\* writers of shard from
Replied(from, d) == \E r \in aux_sent : r.to = from /\ r.reply.dot = d

\* C29: every request of another shard is still buffered at the auxiliary
\* executor or has been answered with a reply (Info or Executed).
C29_NoRequestDropped ==
    \A q \in aux.h_requests : q[2] \in aux.buffered_in_requests[q[1]] \/ Replied(q[1], q[2])

\* every request is buffered, answered, or was discarded because its vertex
\* was found and its command is replicated by the requesting shard; an Info
\* reply carries a committed dot with its clock, an Executed reply a dot of
\* the snapshot
RequestsAccounted ==
    /\ \A q \in aux.h_requests :
           \/ q[2] \in aux.buffered_in_requests[q[1]]
           \/ Replied(q[1], q[2])
           \/ q \in aux.h_discarded
    /\ \A q \in aux.h_discarded :
           q[2] \in DOMAIN commits /\ replicated_by(conflicting_command(q[2]), q[1])
    /\ \A r \in aux_sent :
           /\ <<r.to, r.reply.dot>> \in aux.h_requests
           /\ r.reply.kind = "Info" =>
                  /\ r.reply.dot \in DOMAIN commits
                  /\ r.reply.clock = commits[r.reply.dot]
                  /\ ~replicated_by(r.reply.cmd, r.to)
           /\ r.reply.kind = "Executed" => r.reply.dot \in executed_clock_snapshot

\* after a cleanup of the auxiliary executor the requests still buffered
\* are those of dots neither in the vertex index nor in the snapshot
StillBuffered ==
    CleanupTick(1) =>
        \A from \in AuxShards : \A d \in aux'.buffered_in_requests[from] :
            d \notin DOMAIN graph.vertex_index /\ d \notin executed_clock_snapshot

\* C29 (amended): a request stays buffered at the auxiliary executor while
\* its dot is neither in the vertex index nor in the snapshot; once it is,
\* the next cleanup answers it with Info or Executed, except that a request
\* whose vertex is found and whose command is replicated by the requesting
\* shard is discarded without a reply.
C29_RequestAnsweredUnlessReplicated == []RequestsAccounted /\ [][StillBuffered]_vars

\* one request was discarded without a reply, another was answered Executed
C29_Witness ==
    /\ \E q \in aux.h_discarded : ~Replied(q[1], q[2]) /\ q[2] \notin aux.buffered_in_requests[q[1]]
    /\ \E r \in aux_sent : r.reply.kind = "Executed"

\* a step of the auxiliary executor
AuxStep ==
    \/ \E from \in AuxShards : \E dot \in RequestDots : AuxHandleRequest(from, {dot})
    \/ CleanupTick(1)

\* C30: the snapshot of the executed clock changes only in a cleanup of the
\* main executor (index 0); a step of the auxiliary executor leaves the
\* snapshot, the executed clocks, the vertex index and the pending indexes
\* as they are.
C30_SnapshotWrittenByMainCleanup ==
    [][/\ executed_clock_snapshot' # executed_clock_snapshot => CleanupTick(0)
       /\ AuxStep =>
              /\ executed_clock_snapshot' = executed_clock_snapshot
              /\ graph'.executed_clock = graph.executed_clock
              /\ graph'.vertex_index = graph.vertex_index
              /\ graph'.pending_index = graph.pending_index
              /\ aux'.executed_clock = aux.executed_clock
              /\ aux'.pending_index = aux.pending_index]_vars

\* the main executor wrote a snapshot that is not empty and the auxiliary
\* executor read it: it answered Info for one dot and Executed for another
C30_Witness ==
    /\ executed_clock_snapshot # bottom_aeclock
    /\ \E r1, r2 \in aux_sent : r1.reply.kind = "Info" /\ r2.reply.kind = "Executed"

C31_GetReturnsGuard ==
    \A t \in KcThreadIds :
        (kc_threads[t].pc = "get")
            ~> (kc_threads[t].pc = "guard" /\ kc_threads[t].key \in DOMAIN shared_clocks)

\* the vote ranges issued for key k, and the votes of a range
KeyVotes(k) == {v \in DOMAIN kc_votes : v.key = k}
VotesOf(v) == v.vr.start .. v.vr.end

\* the vote ranges issued for each key that has an entry are issued once,
\* pairwise disjoint, and cover 1..c, c being the clock of the key; it holds
\* of SpecKeyClocks, where the entries exist from the start
VotesPartitionClock ==
    \A k \in DOMAIN shared_clocks :
        /\ \A v \in KeyVotes(k) : kc_votes[v] = 1
        /\ \A v, w \in KeyVotes(k) : v # w => VotesOf(v) \cap VotesOf(w) = {}
        /\ UNION {VotesOf(v) : v \in KeyVotes(k)} = 1..shared_clocks[k]

C38_CommandPresentAtQuorum ==
    \A p \in Procs :
        /\ ~basic[p].panicked
        /\ \A d \in DOMAIN basic[p].dot_to_info :
               all_replies(basic[p].dot_to_info[d].acks) => basic[p].dot_to_info[d].cmd # None

\* a coordinator committed a dot with a full quorum, the info of the dot was
\* removed by the GC, and a late MStoreAck re-created it without the command
C38_Witness ==
    \E p \in Procs : \E d \in DOMAIN basic[p].dot_to_info :
        /\ d \in basic[p].h_gc
        /\ d \in DOMAIN basic[p].h_mcommits
        /\ basic[p].dot_to_info[d].cmd = None
        /\ basic[p].dot_to_info[d].acks # {}

\* C39: MCommitDot and MStable are produced as ToForward actions only:
\* none is ever handed to a writer towards a peer, none is left in the
\* actions of a process, and no process has failed the assertion that the
\* sender of an MCommitDot or MStable is the process itself.
C39_ForwardedToSelfOnly ==
    /\ \A m \in msgs : m.msg.type \notin {"MCommitDot", "MStable"}
    /\ \A p \in Procs :
           /\ ~basic[p].panicked
           /\ \A i \in 1..Len(basic[p].to_processes) :
                  basic[p].to_processes[i].msg.type \in {"MCommitDot", "MStable"}
                      => basic[p].to_processes[i].kind = "ToForward"

\* a process handled an MCommitDot (the dot is in its committed clock) and an
\* MStable (it removed the info of the dot)
C39_Witness ==
    \E p \in Procs : \E d \in basic[p].h_gc :
        /\ d \in basic[p].gc_track.my_clock
        /\ \E i \in 1..Len(basic[p].h_commits) : basic[p].h_commits[i].dot = d

(***************************************************************************)
(* Claims about the internal checks of the graph executor                  *)
(***************************************************************************)
\* C40: the internal checks of the graph executor hold in every reachable
\* state: after a handle_add the commands appended to to_execute are as many
\* as the SCC members the finder counted, a search never ends NotFound, and
\* every dot of a found SCC is in the vertex index when save_scc removes it
\* (the graph never panicked); the commands queued and handed out are as
\* many as the members of the SCCs saved.
C40_InternalChecksHold ==
    /\ ~graph.panicked
    /\ Len(graph.to_execute) + Len(handed) = Len(graph.h_emitted)
    /\ \A scc \in graph.h_sccs : scc \cap DOMAIN graph.vertex_index = {}

\* handle_add has saved an SCC of several members while another command is
\* pending on a missing dependency
C40_Witness ==
    /\ \E scc \in graph.h_sccs : Cardinality(scc) >= 2
    /\ DOMAIN graph.pending_index # {}
    /\ graph.to_execute # <<>>

(***************************************************************************)
(* Claims about the workload                                               *)
(***************************************************************************)
\* C37: for every workload that Workload::new accepts, the key generator
\* can produce keys_per_shard distinct keys, so the gen_unique of gen_cmd
\* can fill its set and does not loop forever.
C37_AcceptedCanGenerate ==
    kgen.pc = "gen_unique" =>
        Cardinality(gen_cmd_key(kgen.key_gen)) >= kgen.keys_per_shard

(***************************************************************************)
(* Claims about the delivery of ToSend actions                             *)
(***************************************************************************)
\* the copies of message msg in the writer channels of peer q
RECURSIVE CountIn(_, _)
CountIn(s, msg) ==
    IF s = <<>> THEN 0 ELSE (IF Head(s) = msg THEN 1 ELSE 0) + CountIn(Tail(s), msg)

RECURSIVE Queued(_, _, _)
Queued(q, msg, i) ==
    IF i = Multiplexing THEN 0 ELSE CountIn(to_writers[q][i], msg) + Queued(q, msg, i + 1)

Written(q, msg) == IF <<q, msg>> \in DOMAIN snd_received THEN snd_received[<<q, msg>>] ELSE 0

\* C35: a ToSend action is delivered exactly once to every process of its
\* target and to no other process: it is handled locally once exactly when
\* the sender is in the target, and for every peer the copies queued at the
\* writers of the peer plus the copies written to its connections are one
\* when the peer is in the target and none otherwise.
C35_ExactlyOncePerTarget ==
    \A msg \in 1..Len(snd_log) :
        /\ snd_self[msg] = (IF SndSelf \in snd_log[msg] THEN 1 ELSE 0)
        /\ \A q \in SndPeers :
               Queued(q, msg, 0) + Written(q, msg) = (IF q \in snd_log[msg] THEN 1 ELSE 0)

\* two actions with the process and all peers in their target went through
\* different writers of peer 2 and were written to its connections; a third
\* action targets the process alone
C35_Witness ==
    /\ Len(snd_log) = 3
    /\ snd_log[1] = SndProcs /\ snd_log[2] = SndProcs /\ snd_log[3] = {SndSelf}
    /\ Written(2, 1) = 1 /\ Written(2, 2) = 1
    /\ to_writers[3][0] = <<1>> /\ to_writers[3][1] = <<2>>

(***************************************************************************)
(* Claims about the registration of clients at the executors               *)
(***************************************************************************)
\* C34: the executor result of a command always finds the client of the
\* command registered at the responsible executor (the registration was
\* handled before the command reached the workers), so that no result is
\* dropped by fetch_new_command_results.
C34_ResultNeverDropped == reg_results.dropped = {}

(***************************************************************************)
(* Claims about Newt                                                       *)
(***************************************************************************)
\* the processes whose MCollectAck for dot was counted by coordinator p, the
\* highest clock they reported, and the members that reported it
Reported(p, dot) == IF dot \in DOMAIN newt[p].h_reported THEN newt[p].h_reported[dot] ELSE {}
Reporters(p, dot) == {r[1] : r \in Reported(p, dot)}
MaxReported(p, dot) == CHOOSE c \in {r[2] : r \in Reported(p, dot)} : \A r \in Reported(p, dot) : r[2] <= c
MaxReporters(p, dot) == {r[1] : r \in {x \in Reported(p, dot) : x[2] = MaxReported(p, dot)}}

\* C32: the coordinator emits the MCommit of a dot only after the
\* MCollectAcks of all members of the fast quorum were handled; once they
\* were, it takes the fast path exactly when the highest clock reported was
\* reported by at least f members (otherwise it enters the slow path), and
\* the clock of the MCommit is the maximum of the clocks reported.
C32_CommitAfterAllAcks ==
    \A p \in NewtProcs :
        /\ \A dot \in DOMAIN newt[p].h_mcommit :
               /\ Reporters(p, dot) = newt_fast_quorum(p)
               /\ Cardinality(MaxReporters(p, dot)) >= NewtF
               /\ newt[p].h_mcommit[dot] = <<MaxReported(p, dot)>>
        /\ \A dot \in newt[p].h_slow :
               /\ Reporters(p, dot) = newt_fast_quorum(p)
               /\ Cardinality(MaxReporters(p, dot)) < NewtF
        /\ \A dot \in DOMAIN newt[p].h_reported :
               Reporters(p, dot) = newt_fast_quorum(p)
                   => dot \in (DOMAIN newt[p].h_mcommit) \cup newt[p].h_slow
        /\ \A m \in newt_msgs :
               (m.msg.type = "MCommit" /\ m.from = p)
                   => /\ m.msg.dot \in DOMAIN newt[p].h_mcommit
                      /\ m.msg.clock = MaxReported(p, m.msg.dot)

\* a coordinator took the fast path for a dot although one member of the
\* fast quorum reported a lower clock than the others
C32_Witness ==
    \E p \in NewtProcs : \E dot \in DOMAIN newt[p].h_mcommit :
        /\ MaxReporters(p, dot) # Reporters(p, dot)
        /\ \E m \in newt_msgs : m.msg.type = "MCommit" /\ m.msg.dot = dot

\* the execution infos with votes that process p emitted for dot
RECURSIVE VotesInfos(_, _)
VotesInfos(q, dot) ==
    IF q = <<>> THEN 0
    ELSE (IF Head(q).kind = "votes" /\ Head(q).dot = dot THEN 1 ELSE 0) + VotesInfos(Tail(q), dot)

\* C33: the status of a dot only moves forward along START -> COLLECT ->
\* COMMIT at every process, also when messages are delivered again, and
\* each process emits the execution info that carries the votes of a dot at
\* most once.
C33_StatusMovesForward ==
    \A p \in NewtProcs :
        /\ \A dot \in DOMAIN newt[p].h_status :
               \A i \in 1..(Len(newt[p].h_status[dot]) - 1) :
                   StatusRank(newt[p].h_status[dot][i]) < StatusRank(newt[p].h_status[dot][i + 1])
        /\ \A dot \in DOMAIN newt[p].cmds :
               /\ VotesInfos(newt[p].to_executor, dot) <= 1
               /\ VotesInfos(newt[p].to_executor, dot) = 1 => newt[p].cmds[dot].status = COMMIT

\* a member of the fast quorum went through START, COLLECT and COMMIT for a
\* dot, emitted its execution info, and then discarded a second MCommit
C33_Witness ==
    \E p \in NewtProcs : \E dot \in DOMAIN newt[p].h_status :
        /\ newt[p].h_status[dot] = <<START, COLLECT, COMMIT>>
        /\ "MCommit" \in newt[p].h_ignored
        /\ VotesInfos(newt[p].to_executor, dot) = 1

====
